---- MODULE Spec2Model ----
(***************************************************************************)
(* Model of the Matroska rewrite engine, MatroskaContainer::internalMakeFile *)
(* (src/matroska/matroskacontainer.cpp), together with the element tree of  *)
(* GenericFileElement (genericfileelement.h).                               *)
(*                                                                         *)
(* A file is a sequence of top-level elements; every element is a record    *)
(*   [id, hdr, size, kids, data]                                            *)
(* with hdr the header size (id length + size length), size the total size, *)
(* kids the child elements and data an auxiliary payload value.  Offsets    *)
(* are never stored: they follow from the sizes of the preceding elements,  *)
(* as they do in the byte stream.                                           *)
(***************************************************************************)
EXTENDS Integers, Sequences, FiniteSets, TLC

\* ------------------------------------------------------------------------
\* Bounds of the explored input space
\* ------------------------------------------------------------------------
\* largest number of "Segment"-elements in an input file
MaxSegments == 2
\* largest number of "Cluster"-elements in one segment
MaxClusters == 2

\* ------------------------------------------------------------------------
\* Generic helpers
\* ------------------------------------------------------------------------
RECURSIVE SumSizes(_)
\* sum of the total sizes of a sequence of elements
SumSizes(es) ==
    IF es = <<>> THEN 0 ELSE Head(es).size + SumSizes(Tail(es))

RECURSIVE SumSeq(_)
\* sum of a sequence of numbers
SumSeq(s) ==
    IF s = <<>> THEN 0 ELSE Head(s) + SumSeq(Tail(s))

RECURSIVE SelectIdx(_, _, _)
\* the indices i >= from of sequence es whose element has identifier id
SelectIdx(es, id, from) ==
    IF from > Len(es) THEN <<>>
    ELSE IF es[from].id = id THEN <<from>> \o SelectIdx(es, id, from + 1)
    ELSE SelectIdx(es, id, from + 1)

\* ------------------------------------------------------------------------
\* EBML primitives (EbmlElement)
\* ------------------------------------------------------------------------
\* EbmlElement::calculateSizeDenotationLength: the minimum k such that
\* v < 2^(7k) - 1; the all-ones value is reserved
calculateSizeDenotationLength(v) ==
    IF v < 127 THEN 1
    ELSE IF v < 16383 THEN 2
    ELSE IF v < 2097151 THEN 3
    ELSE 4

\* EbmlElement::calculateUIntegerLength: bytes needed to store v
calculateUIntegerLength(v) ==
    IF v < 256 THEN 1
    ELSE IF v < 65536 THEN 2
    ELSE IF v < 16777216 THEN 3
    ELSE 4

\* EbmlElement::calculateIdLength: Matroska level 1 identifiers are 4 bytes
calculateIdLength(id) ==
    IF id \in {"Void", "Crc32", "Position", "Block"} THEN 1
    ELSE IF id \in {"MuxingApp", "WrittingApp", "Other"} THEN 2
    ELSE 4

\* EbmlElement::makeSizeDenotation returns the number of bytes it made:
\* the minimal denotation of the value
makeSizeDenotation(v) == calculateSizeDenotationLength(v)

\* EbmlElement::makeUInteger(value, buff, minBytes): bytes made, at least
\* minBytes
makeUInteger(v, minBytes) ==
    IF calculateUIntegerLength(v) > minBytes THEN calculateUIntegerLength(v) ELSE minBytes

\* bytes written by EbmlElement::makeSimpleElement(stream, id, uint content)
\* for a one byte identifier
makeSimpleElementSize(v) == 1 + 1 + calculateUIntegerLength(v)

\* length of the application-identifier string (APP_NAME " v" APP_VERSION)
appInfoElementDataSize == 16
\* "MuxingApp"/"WritingApp": 2 byte id, 1 byte size denotation, the string
appInfoElementTotalSize == 2 + 1 + appInfoElementDataSize

\* fields of the EBML header the container regenerates
HeaderValues == <<1, 1, 4, 8, 1, 1>>
\* length of the doctype string "matroska"
DocTypeSize == 8

RECURSIVE HeaderValuesSize(_)
\* content and size denotation length of the numeric header sub elements
HeaderValuesSize(vs) ==
    IF vs = <<>> THEN 0
    ELSE calculateUIntegerLength(Head(vs))
         + calculateSizeDenotationLength(calculateUIntegerLength(Head(vs)))
         + HeaderValuesSize(Tail(vs))

ebmlHeaderDataSize ==
    2 * 7 + HeaderValuesSize(HeaderValues)
    + DocTypeSize + calculateSizeDenotationLength(DocTypeSize)

ebmlHeaderSize ==
    4 + calculateSizeDenotationLength(ebmlHeaderDataSize) + ebmlHeaderDataSize

\* ------------------------------------------------------------------------
\* Elements of the original file
\* ------------------------------------------------------------------------
\* an element without children
Leaf(id, size, data) ==
    [id |-> id, hdr |-> calculateIdLength(id) + 1, size |-> size, kids |-> <<>>, data |-> data]

\* a master element with minimal size denotation
Master(id, kids, data) ==
    [id |-> id,
     hdr |-> calculateIdLength(id) + calculateSizeDenotationLength(SumSizes(kids)),
     size |-> calculateIdLength(id) + calculateSizeDenotationLength(SumSizes(kids)) + SumSizes(kids),
     kids |-> kids, data |-> data]

\* GenericFileElement::totalSize
totalSize(e) == e.size
\* GenericFileElement::headerSize
headerSize(e) == e.hdr
\* GenericFileElement::dataSize
dataSize(e) == e.size - e.hdr

\* start offset of the i-th child of an element that starts at parentStart
ChildStart(parentStart, parent, i) ==
    parentStart + parent.hdr + SumSizes(SubSeq(parent.kids, 1, i - 1))

\* GenericFileElement::childById: index of the first child with the id, 0
\* when there is none
childById(e, id) ==
    IF SelectIdx(e.kids, id, 1) = <<>> THEN 0 ELSE Head(SelectIdx(e.kids, id, 1))

\* GenericFileElement::siblingById(id, includeThis = false) for the child at
\* index i of element e: index of the next sibling with the id, 0 for none
siblingById(e, i, id) ==
    IF SelectIdx(e.kids, id, i + 1) = <<>> THEN 0 ELSE Head(SelectIdx(e.kids, id, i + 1))

\* all children with the id, in order (childById followed by siblingById
\* until null)
ChildrenById(e, id) == SelectIdx(e.kids, id, 1)

\* ------------------------------------------------------------------------
\* Input files
\* ------------------------------------------------------------------------
\* element positions (ElementPosition)
Keep == "Keep"
BeforeData == "BeforeData"
AfterData == "AfterData"

\* size of a "Block" child of a cluster in the input files
BlockSize == 100
\* size of the "Tracks"-element in the input files
TracksSize == 60
\* size of the "SeekHead"-element in the input files
OrigSeekHeadSize == 61
\* total size of a "CuePoint" whose "CueClusterPosition" takes n bytes:
\* CuePoint header, CueTime (3), CueTrackPositions header, CueTrack (3),
\* CueClusterPosition (1 + 1 + n)
CuePointSize(n) == 2 + 3 + 2 + 3 + 2 + n

\* size of the block of a cluster of kind "edge0", "edge1" or "edge2": with
\* "edge1" a segment made of SeekHead, SegmentInfo, Tracks, 40 bytes of
\* padding and that cluster (header of 6 bytes), followed by a new
\* "Tags"-element of 25 bytes, has 16382 bytes of data, the most a size
\* denotation of 2 bytes can hold
EdgeBlockSize(kind) ==
    16382 - (OrigSeekHeadSize + 2 * appInfoElementTotalSize + 5 + TracksSize + 40 + 6 + 25)
    + (IF kind = "edge0" THEN -1 ELSE IF kind = "edge1" THEN 0 ELSE 1)

\* a "Cluster"-element of the input file; kind says which children it has:
\* "plain" a block only, "pos" a "Position" of two bytes, "crcpos" a CRC-32
\* and a "Position" of two bytes, "crcpos1" a CRC-32 and a "Position" of one
\* byte, "void" a "Void", "edge0" to "edge2" a block of EdgeBlockSize
OrigCluster(kind) ==
    Master("Cluster",
           (IF kind \in {"crcpos", "crcpos1"} THEN <<Leaf("Crc32", 6, 0)>> ELSE <<>>)
           \o (IF kind \in {"pos", "crcpos"} THEN <<Leaf("Position", 4, 0)>> ELSE <<>>)
           \o (IF kind = "crcpos1" THEN <<Leaf("Position", 3, 0)>> ELSE <<>>)
           \o (IF kind = "void" THEN <<Leaf("Void", 4, 0)>> ELSE <<>>)
           \o <<Leaf("Block", IF kind \in {"edge0", "edge1", "edge2"}
                               THEN EdgeBlockSize(kind) ELSE BlockSize, 0)>>,
           0)

\* a "SegmentInfo"-element of the input file whose children other than
\* Title, MuxingApp and WritingApp take "others" bytes
OrigInfo(others) ==
    Master("SegmentInfo",
           <<Leaf("MuxingApp", appInfoElementTotalSize, 0),
             Leaf("WrittingApp", appInfoElementTotalSize, 0)>>
           \o (IF others > 0 THEN <<Leaf("Other", others, 0)>> ELSE <<>>),
           others)

\* the "Cues"-element of the input file: one CuePoint per cluster, the
\* CueClusterPosition stored in two bytes
OrigCues(n) ==
    [id |-> "Cues", hdr |-> 5, size |-> 5 + n * CuePointSize(2), kids |-> <<>>, data |-> n]

OrigTags(size) == Leaf("Tags", size, 0)

\* a "Segment"-element of the input file, from its description d =
\* [crc, infos, cues, tags, tagsAt, pad, clusters, sdl]
OrigSegment(d) ==
    LET kids ==
            (IF d.crc THEN <<Leaf("Crc32", 6, 0)>> ELSE <<>>)
            \o <<Leaf("SeekHead", OrigSeekHeadSize, 0)>>
            \o [i \in 1..Len(d.infos) |-> OrigInfo(d.infos[i])]
            \o <<Leaf("Tracks", TracksSize, 0)>>
            \o (IF d.tags > 0 /\ d.tagsAt = BeforeData THEN <<OrigTags(d.tags)>> ELSE <<>>)
            \o (IF d.cues = BeforeData THEN <<OrigCues(Len(d.clusters))>> ELSE <<>>)
            \o (IF d.pad > 0 THEN <<Leaf("Void", d.pad, 0)>> ELSE <<>>)
            \o [i \in 1..Len(d.clusters) |-> OrigCluster(d.clusters[i])]
            \o (IF d.cues = AfterData THEN <<OrigCues(Len(d.clusters))>> ELSE <<>>)
            \o (IF d.tags > 0 /\ d.tagsAt = AfterData THEN <<OrigTags(d.tags)>> ELSE <<>>)
    IN  [id |-> "Segment", hdr |-> 4 + d.sdl, size |-> 4 + d.sdl + SumSizes(kids),
         kids |-> kids, data |-> 0]

\* the EBML header of the input file
OrigHeader ==
    [id |-> "Header", hdr |-> 5, size |-> ebmlHeaderSize, kids |-> <<>>, data |-> 0]

\* an unknown top-level element of the input file
OrigUnknown == Leaf("Unknown", 12, 0)

RECURSIVE Interleave(_, _)
\* the segments, an unknown element after the first one if asked for
Interleave(segs, unknown) ==
    IF segs = <<>> THEN <<>>
    ELSE <<Head(segs)>> \o (IF unknown THEN <<OrigUnknown>> ELSE <<>>)
         \o Interleave(Tail(segs), FALSE)

\* the top-level elements of an input file
OrigFile(descs, unknown) ==
    <<OrigHeader>> \o Interleave([i \in 1..Len(descs) |-> OrigSegment(descs[i])], unknown)

\* ------------------------------------------------------------------------
\* State
\* ------------------------------------------------------------------------
VARIABLES
    file,             \* top-level elements of the original file
    cfg,              \* the settings of fileInfo() read by the planner
    tagMaker,         \* requiredSize() of every tag maker
    attachmentMaker,  \* requiredSize() of every attachment maker
    pc,               \* position inside internalMakeFile
    newTagPos, currentTagPos, newCuesPos, currentCuesPos,
    lastSegmentIndex, newPadding, rewriteRequired,
    segmentIndex,     \* current segment index
    level0,           \* index of level0Element in file, Len(file) + 1 for null
    currentOffset, readOffset, currentPosition,
    offset,           \* offset before the "Cues"-element / segment data offset
    segmentData,      \* vector<SegmentData>
    passes,           \* number of times label calculateSegmentData was reached
    restarts,         \* jumps back taken while the size of the current segment is calculated
    aborted,          \* the status providers whose isAborted() returns true
    failure,          \* the failure thrown, "none" while there is none
    handled,          \* whether the failure went through the backup helper
    originalFile,     \* content of the file at the original path
    backupPath,       \* backupPath: "" until a backup file has been created
    saveFile,         \* content of the file at the save file path
    buffered,         \* whether the attachment makers have buffered their data
    tellp,            \* write position of outputStream
    clusterIt,        \* position of clusterSizesIterator, counted from 1
    out,              \* elements written so far: [seg, id, start, size, x]
    written,          \* segments written so far: [start, dataOffset, denoted, end]
    crc32Offsets,     \* offset and block length of every CRC-32 placeholder
    oggStream,        \* the pages of the OGG stream: serial number and segment table
    iterator,         \* the OggIterator: its member variables
    call,             \* the last call of the iterator and its outcome
    elements,         \* top-level siblings of a tree of file elements
    lookup,           \* the last lookup in the tree and what it returned
    m_firstElement,   \* top-level elements of the file internalParseHeader reads
    parser,           \* internalParseHeader: its position and what it has gathered
    field,            \* the Mp4TagField: id, type info and value
    atom              \* the last call on the field and the tag atom it made

inputVars == <<file, cfg, tagMaker, attachmentMaker>>
emitVars == <<aborted, failure, handled, originalFile, backupPath, saveFile, buffered,
              tellp, clusterIt, out, written, crc32Offsets>>
ioVars == <<failure, handled, originalFile, backupPath, saveFile, buffered,
            tellp, clusterIt, out, written, crc32Offsets>>
planVars == <<newTagPos, currentTagPos, newCuesPos, currentCuesPos, lastSegmentIndex,
              newPadding, rewriteRequired, segmentIndex, level0, currentOffset,
              readOffset, currentPosition, offset, segmentData, passes, restarts>>

oggVars == <<oggStream, iterator, call>>
treeVars == <<elements, lookup>>
parseVars == <<m_firstElement, parser>>
mp4Vars == <<field, atom>>

\* all variables
vars == <<oggStream, iterator, call, elements, lookup, m_firstElement, parser, field, atom, file, cfg, tagMaker, attachmentMaker, pc, newTagPos, currentTagPos, newCuesPos,
          currentCuesPos, lastSegmentIndex, newPadding, rewriteRequired, segmentIndex,
          level0, currentOffset, readOffset, currentPosition, offset, segmentData, passes,
          restarts, aborted, failure, handled, originalFile, backupPath, saveFile, buffered, tellp,
          clusterIt, out, written, crc32Offsets>>

\* the variables of internalMakeFile
matroskaVars == <<inputVars, pc, planVars, emitVars>>

\* start offset of the i-th top-level element of the original file
TopStart(i) == SumSizes(SubSeq(file, 1, i - 1))

\* the current top-level element
level0Element == file[level0]

\* index (from 1) of the current segment in segmentData
sx == segmentIndex + 1

\* start offset, in the original file, of child c of the current segment
Level1Start(c) == ChildStart(TopStart(level0), level0Element, c)

\* GenericFileElement::dataOffset of the current top-level element
Level0DataOffset == TopStart(level0) + headerSize(level0Element)

\* ------------------------------------------------------------------------
\* Makers (lines 840-872)
\* ------------------------------------------------------------------------
RECURSIVE SumRequired(_)
\* sum of the required sizes greater than 3: a maker of 3 bytes is empty
SumRequired(makers) ==
    IF makers = <<>> THEN 0
    ELSE (IF Head(makers) > 3 THEN Head(makers) ELSE 0) + SumRequired(Tail(makers))

tagElementsSize == SumRequired(tagMaker)

tagsSize ==
    IF tagElementsSize # 0
    THEN 4 + calculateSizeDenotationLength(tagElementsSize) + tagElementsSize ELSE 0

attachedFileElementsSize == SumRequired(attachmentMaker)

attachmentsSize ==
    IF attachedFileElementsSize # 0
    THEN 4 + calculateSizeDenotationLength(attachedFileElementsSize) + attachedFileElementsSize
    ELSE 0

\* ------------------------------------------------------------------------
\* SeekHead builder (MatroskaSeekInfo)
\* ------------------------------------------------------------------------
\* serialized size: per entry a "Seek" header (2 + 1), "SeekID" (2 + 1 + id
\* length) and "SeekPosition" (2 + 1 + integer length); the "SeekHead"
\* header (4 + size denotation) when there is an entry at all
RECURSIVE SeekEntriesSize(_)
SeekEntriesSize(info) ==
    IF info = <<>> THEN 0
    ELSE 2 + 1 + (2 + 1 + calculateIdLength(Head(info).id))
         + (2 + 1 + calculateUIntegerLength(Head(info).offset))
         + SeekEntriesSize(Tail(info))

actualSize(info) ==
    IF SeekEntriesSize(info) = 0 THEN 0
    ELSE 4 + calculateSizeDenotationLength(SeekEntriesSize(info)) + SeekEntriesSize(info)

\* push(index, id, offset): updates the index-th entry with the id or
\* inserts it; changed tells whether actualSize() changed
push(info, index, id, off) ==
    LET occ == SelectIdx(info, id, 1)
        new == IF index < Len(occ)
               THEN [info EXCEPT ![occ[index + 1]].offset = off]
               ELSE Append(info, [id |-> id, offset |-> off])
    IN  [info |-> new, changed |-> actualSize(new) # actualSize(info)]

\* ------------------------------------------------------------------------
\* Cues updater (MatroskaCuePositionUpdater)
\* ------------------------------------------------------------------------
RECURSIVE CuePointsSize(_)
CuePointsSize(entries) ==
    IF entries = <<>> THEN 0
    ELSE CuePointSize(calculateUIntegerLength(Head(entries).value))
         + CuePointsSize(Tail(entries))

\* totalSize(): serialized size with the current offsets, 0 when nothing
\* has been parsed
cuesTotalSize(cues) ==
    IF ~cues.parsed THEN 0
    ELSE 4 + calculateSizeDenotationLength(CuePointsSize(cues.entries))
         + CuePointsSize(cues.entries)

\* parse(cuesElement): one entry per CuePoint, holding the
\* CueClusterPosition read from the file
cuesParse(seg, segStart) ==
    LET cl == ChildrenById(seg, "Cluster")
    IN  [parsed |-> TRUE,
         entries |-> [i \in 1..Len(cl) |->
                        [initial |-> ChildStart(segStart, seg, cl[i]) - (segStart + seg.hdr),
                         value |-> ChildStart(segStart, seg, cl[i]) - (segStart + seg.hdr)]]]

\* updateOffsets(originalOffset, newOffset): relocates the entries whose
\* original CueClusterPosition is originalOffset
updateOffsets(cues, originalOffset, newOffset) ==
    LET new == [cues EXCEPT !.entries =
                   [i \in 1..Len(cues.entries) |->
                       IF cues.entries[i].initial = originalOffset
                       THEN [cues.entries[i] EXCEPT !.value = newOffset]
                       ELSE cues.entries[i]]]
    IN  [cues |-> new, changed |-> cuesTotalSize(new) # cuesTotalSize(cues)]

\* ------------------------------------------------------------------------
\* Phase A: layout of the original file (lines 874-915)
\* ------------------------------------------------------------------------
\* SegmentData::SegmentData
SegmentDataInit ==
    [hasCrc32 |-> FALSE, seekInfo |-> <<>>, cuesElement |-> 0,
     cuesUpdater |-> [parsed |-> FALSE, entries |-> <<>>],
     infoDataSize |-> 0, clusterSizes |-> <<>>, firstClusterElement |-> 0,
     clusterEndOffset |-> 0, startOffset |-> 0, newPadding |-> 0,
     sizeDenotationLength |-> 0, totalDataSize |-> 0, totalSize |-> 0,
     newDataOffset |-> 0]

RECURSIVE FirstTagOrCluster(_)
\* the inner loop of the inspection: which of Tags/Attachments and Cluster
\* comes first among the children
FirstTagOrCluster(kids) ==
    IF kids = <<>> THEN Keep
    ELSE IF Head(kids).id \in {"Tags", "Attachments"} THEN BeforeData
    ELSE IF Head(kids).id = "Cluster" THEN AfterData
    ELSE FirstTagOrCluster(Tail(kids))

RECURSIVE InspectTagPos(_)
\* the outer loop: the flags firstClusterFound/firstTagFound survive from
\* one segment to the next, so the first segment that has either decides
InspectTagPos(top) ==
    IF top = <<>> THEN Keep
    ELSE IF Head(top).id = "Segment" /\ FirstTagOrCluster(Head(top).kids) # Keep
         THEN FirstTagOrCluster(Head(top).kids)
    ELSE InspectTagPos(Tail(top))

\* number of "Segment"-elements
SegmentCount(top) == Len(SelectIdx(top, "Segment", 1))

\* the tag position "Keep" resolves to the current one, BeforeData if unknown
ResolveTagPos(pos, current) ==
    IF pos = Keep THEN (IF current = Keep THEN BeforeData ELSE current) ELSE pos

InspectLayout ==
    /\ pc = "inspectLayout"
    /\ lastSegmentIndex' = SegmentCount(file) - 1
    /\ segmentData' = [i \in 1..SegmentCount(file) |-> SegmentDataInit]
    /\ currentTagPos' = InspectTagPos(file)
    /\ newTagPos' = ResolveTagPos(newTagPos, InspectTagPos(file))
    /\ pc' = "calculateSegmentData"
    /\ UNCHANGED <<inputVars, oggVars, treeVars, parseVars, mp4Vars, emitVars, newCuesPos, currentCuesPos, newPadding, rewriteRequired,
                   segmentIndex, level0, currentOffset, readOffset, currentPosition,
                   offset, passes, restarts>>

\* ------------------------------------------------------------------------
\* Phase B: label calculateSegmentData (lines 917-939)
\* ------------------------------------------------------------------------
CalculateSegmentData ==
    /\ pc = "calculateSegmentData"
    /\ currentOffset' = ebmlHeaderSize
    /\ readOffset' = 0
    /\ newTagPos' = IF rewriteRequired
                    THEN ResolveTagPos(cfg.tagPosition, currentTagPos) ELSE newTagPos
    /\ newCuesPos' = IF rewriteRequired THEN cfg.indexPosition ELSE newCuesPos
    /\ level0' = 1
    /\ currentPosition' = 0
    /\ newPadding' = 0
    /\ segmentIndex' = 0
    /\ passes' = passes + 1
    /\ pc' = "level0"
    /\ UNCHANGED <<inputVars, oggVars, treeVars, parseVars, mp4Vars, emitVars, currentTagPos, currentCuesPos, lastSegmentIndex,
                   rewriteRequired, offset, segmentData, restarts>>

\* top-level "Header"-, "Void"- and "Crc32"-elements (lines 941-948)
SkipLevel0 ==
    /\ pc = "level0"
    /\ level0 <= Len(file)
    /\ level0Element.id \in {"Header", "Void", "Crc32"}
    /\ level0' = level0 + 1
    /\ UNCHANGED <<inputVars, oggVars, treeVars, parseVars, mp4Vars, emitVars, pc, newTagPos, currentTagPos, newCuesPos, currentCuesPos,
                   lastSegmentIndex, newPadding, rewriteRequired, segmentIndex,
                   currentOffset, readOffset, currentPosition, offset, segmentData,
                   passes, restarts>>

\* unknown top-level elements are copied (lines 1311-1316)
UnknownLevel0 ==
    /\ pc = "level0"
    /\ level0 <= Len(file)
    /\ level0Element.id \notin {"Header", "Void", "Crc32", "Segment"}
    /\ currentOffset' = currentOffset + totalSize(level0Element)
    /\ readOffset' = readOffset + totalSize(level0Element)
    /\ level0' = level0 + 1
    /\ UNCHANGED <<inputVars, oggVars, treeVars, parseVars, mp4Vars, emitVars, pc, newTagPos, currentTagPos, newCuesPos, currentCuesPos,
                   lastSegmentIndex, newPadding, rewriteRequired, segmentIndex,
                   currentPosition, offset, segmentData, passes, restarts>>

\* a "Segment"-element is reached (lines 950-986)
BeginSegment ==
    /\ pc = "level0"
    /\ level0 <= Len(file)
    /\ level0Element.id = "Segment"
    /\ LET sd == segmentData[sx]
           cuesEl == IF sd.cuesElement # 0 THEN sd.cuesElement
                     ELSE childById(level0Element, "Cues")
           firstCl == IF sd.firstClusterElement # 0 THEN sd.firstClusterElement
                      ELSE childById(level0Element, "Cluster")
           cuesPos == IF Level1Start(cuesEl) < Level1Start(firstCl)
                      THEN BeforeData ELSE AfterData
       IN  /\ segmentData' = [segmentData EXCEPT ![sx] =
                 [sd EXCEPT
                    !.cuesElement = cuesEl,
                    !.cuesUpdater = IF sd.cuesElement = 0 /\ cuesEl # 0
                                    THEN cuesParse(level0Element, TopStart(level0))
                                    ELSE sd.cuesUpdater,
                    !.firstClusterElement = firstCl,
                    !.startOffset = currentOffset,
                    !.hasCrc32 = (level0Element.kids # <<>>
                                  /\ level0Element.kids[1].id = "Crc32")]]
           /\ currentCuesPos' = IF cuesEl # 0 /\ firstCl # 0 THEN cuesPos ELSE currentCuesPos
           /\ newCuesPos' = IF newCuesPos # Keep THEN newCuesPos
                            ELSE IF cuesEl # 0 /\ firstCl # 0 THEN cuesPos
                            ELSE BeforeData
    /\ restarts' = 0
    /\ pc' = "calculateSegmentSize"
    /\ UNCHANGED <<inputVars, oggVars, treeVars, parseVars, mp4Vars, emitVars, newTagPos, currentTagPos, lastSegmentIndex, newPadding,
                   rewriteRequired, segmentIndex, level0, currentOffset, readOffset,
                   currentPosition, offset, passes>>

\* ------------------------------------------------------------------------
\* Phase B: size of one segment
\* ------------------------------------------------------------------------
\* data size of the new "SegmentInfo"-element made from child c of the
\* current segment: MuxingApp and WritingApp, the other children (no title
\* is set in the explored inputs)
InfoDataSize(c) == 2 * appInfoElementTotalSize + level0Element.kids[c].data

\* what "pretend writing" an element needs: the SeekHead entry to update and
\* the size to add
Item(id, index, size, infoData) ==
    [id |-> id, index |-> index, size |-> size, infoData |-> infoData]

InfoItems ==
    LET cs == ChildrenById(level0Element, "SegmentInfo")
    IN  [i \in 1..Len(cs) |->
            Item("SegmentInfo", i - 1,
                 4 + calculateSizeDenotationLength(InfoDataSize(cs[i])) + InfoDataSize(cs[i]),
                 InfoDataSize(cs[i]))]

CopiedItems(id) ==
    LET cs == ChildrenById(level0Element, id)
    IN  [i \in 1..Len(cs) |-> Item(id, i - 1, totalSize(level0Element.kids[cs[i]]), -1)]

\* "Tags"- and "Attachments"-element, when they have a size
TagItems ==
    (IF tagsSize # 0 THEN <<Item("Tags", 0, tagsSize, -1)>> ELSE <<>>)
    \o (IF attachmentsSize # 0 THEN <<Item("Attachments", 0, attachmentsSize, -1)>> ELSE <<>>)

RECURSIVE PretendWriting(_, _, _)
\* pushes every item's position into the SeekHead and adds its size; stops
\* with restart = TRUE at the first push that changes the SeekHead's size
PretendWriting(items, sd, pos) ==
    IF items = <<>> THEN [restart |-> FALSE, sd |-> sd]
    ELSE LET it == Head(items)
             p == push(sd.seekInfo, it.index, it.id, pos + sd.totalDataSize)
         IN  IF p.changed
             THEN [restart |-> TRUE, sd |-> [sd EXCEPT !.seekInfo = p.info]]
             ELSE PretendWriting(Tail(items),
                     [sd EXCEPT !.seekInfo = p.info,
                                !.totalDataSize = sd.totalDataSize + it.size,
                                !.infoDataSize = IF it.infoData >= 0 THEN it.infoData
                                                 ELSE sd.infoDataSize],
                     pos)

\* "Cues"-element written after the clusters, then Tags and Attachments in
\* the last segment
AfterItems(sd) ==
    (IF newCuesPos = AfterData /\ sd.cuesElement # 0
     THEN <<Item("Cues", 0, cuesTotalSize(sd.cuesUpdater), -1)>> ELSE <<>>)
    \o (IF newTagPos = AfterData /\ segmentIndex = lastSegmentIndex THEN TagItems ELSE <<>>)

\* the restarts after which the calculation of a segment is given up
MaxRestarts == 16

\* the labels the calculation of a segment jumps back to (lines 989, 1082
\* and 1111)
JumpedBackTo == {"calculateSegmentSize", "addCuesElementSize", "nonRewriteCalculations"}

\* label calculateSegmentSize (lines 989-1080)
CalculateSegmentSize ==
    /\ pc = "calculateSegmentSize"
    /\ restarts < MaxRestarts
    /\ LET sd0 == [segmentData[sx] EXCEPT
                      !.totalDataSize = (IF segmentData[sx].hasCrc32 THEN 6 ELSE 0)
                                        + actualSize(segmentData[sx].seekInfo)]
           r == PretendWriting(
                    InfoItems \o CopiedItems("Tracks") \o CopiedItems("Chapters")
                    \o (IF newTagPos = BeforeData /\ segmentIndex = 0 THEN TagItems ELSE <<>>),
                    sd0, currentPosition)
           c == push(r.sd.seekInfo, 0, "Cues", currentPosition + r.sd.totalDataSize)
       IN  IF r.restart
           THEN /\ segmentData' = [segmentData EXCEPT ![sx] = r.sd]
                /\ pc' = "calculateSegmentSize"
                /\ UNCHANGED offset
           ELSE /\ offset' = r.sd.totalDataSize
                /\ IF newCuesPos = BeforeData /\ r.sd.cuesElement # 0
                   THEN /\ segmentData' = [segmentData EXCEPT ![sx] =
                                              [r.sd EXCEPT !.seekInfo = c.info]]
                        /\ pc' = IF c.changed THEN "calculateSegmentSize"
                                 ELSE "addCuesElementSize"
                   ELSE /\ segmentData' = [segmentData EXCEPT ![sx] = r.sd]
                        /\ pc' = "decide"
    /\ restarts' = IF pc' \in JumpedBackTo THEN restarts + 1 ELSE restarts
    /\ UNCHANGED <<inputVars, oggVars, treeVars, parseVars, mp4Vars, emitVars, newTagPos, currentTagPos, newCuesPos, currentCuesPos,
                   lastSegmentIndex, newPadding, rewriteRequired, segmentIndex, level0,
                   currentOffset, readOffset, currentPosition, passes>>

\* label addCuesElementSize (lines 1082-1083)
AddCuesElementSize ==
    /\ pc = "addCuesElementSize"
    /\ segmentData' = [segmentData EXCEPT ![sx].totalDataSize =
                          @ + cuesTotalSize(segmentData[sx].cuesUpdater)]
    /\ pc' = "decide"
    /\ UNCHANGED <<inputVars, oggVars, treeVars, parseVars, mp4Vars, emitVars, newTagPos, currentTagPos, newCuesPos, currentCuesPos,
                   lastSegmentIndex, newPadding, rewriteRequired, segmentIndex, level0,
                   currentOffset, readOffset, currentPosition, offset, passes, restarts>>

\* Decide with the positions changed no matter whether a rewrite is going on
Decide_ChangingPositionsOfRewrite ==
    /\ pc = "decide"
    /\ pc' = "changePositions"
    /\ UNCHANGED <<inputVars, oggVars, treeVars, parseVars, mp4Vars, emitVars, segmentData, rewriteRequired,
                   newTagPos, currentTagPos, newCuesPos, currentCuesPos,
                   lastSegmentIndex, newPadding, segmentIndex, level0,
                   currentOffset, readOffset, currentPosition, offset, passes, restarts>>

\* whether a rewrite is needed for sure (lines 1087-1110, 1187-1198)
Decide ==
    /\ pc = "decide"
    /\ LET sd == segmentData[sx]
       IN  IF rewriteRequired
           THEN /\ pc' = "rewriteCalculations"
                /\ UNCHANGED <<segmentData, rewriteRequired, failure>>
           ELSE IF sd.firstClusterElement = 0
           THEN /\ pc' = "changePositions"
                /\ UNCHANGED <<segmentData, rewriteRequired, failure>>
           ELSE IF currentOffset + 4 + sd.totalDataSize > Level1Start(sd.firstClusterElement)
           THEN /\ rewriteRequired' = TRUE
                /\ pc' = "changePositions"
                /\ UNCHANGED <<segmentData, failure>>
           ELSE IF headerSize(level0Element) <= 4 \/ headerSize(level0Element) > 12
           THEN /\ pc' = "thrown"
                /\ failure' = "InvalidData"
                /\ UNCHANGED <<segmentData, rewriteRequired>>
           ELSE /\ segmentData' = [segmentData EXCEPT ![sx].sizeDenotationLength =
                                      headerSize(level0Element) - 4]
                /\ pc' = "nonRewriteCalculations"
                /\ UNCHANGED <<rewriteRequired, failure>>
    /\ UNCHANGED <<inputVars, oggVars, treeVars, parseVars, mp4Vars, aborted, handled, originalFile, backupPath, saveFile, buffered,
                   tellp, clusterIt, out, written, crc32Offsets,
                   newTagPos, currentTagPos, newCuesPos, currentCuesPos,
                   lastSegmentIndex, newPadding, segmentIndex, level0,
                   currentOffset, readOffset, currentPosition, offset, passes, restarts>>

\* clusterReadOffset of child c: its offset in the segment data of the
\* original file plus the sizes of the preceding top-level elements
ClusterReadOffset(c) == Level1Start(c) - Level0DataOffset + readOffset

RECURSIVE UpdateClusterOffsets(_, _)
\* the loop of lines 1118-1125 over the clusters cs: stops (jump = TRUE)
\* after the first update that changes the size of a "Cues"-element which
\* is written before the data
UpdateClusterOffsets(cs, sd) ==
    IF cs = <<>> THEN [jump |-> FALSE, sd |-> sd]
    ELSE LET c == Head(cs)
             u == updateOffsets(sd.cuesUpdater, ClusterReadOffset(c),
                     Level1Start(c) - 4 - sd.sizeDenotationLength - ebmlHeaderSize)
             sd1 == [sd EXCEPT
                        !.clusterEndOffset = Level1Start(c) + totalSize(level0Element.kids[c]),
                        !.cuesUpdater = IF sd.cuesElement # 0 THEN u.cues ELSE @]
         IN  IF sd.cuesElement # 0 /\ u.changed /\ newCuesPos = BeforeData
             THEN [jump |-> TRUE, sd |-> sd1]
             ELSE UpdateClusterOffsets(Tail(cs), sd1)

\* label nonRewriteCalculations (lines 1111-1186)
NonRewriteCalculations ==
    /\ pc = "nonRewriteCalculations"
    /\ restarts < MaxRestarts
    /\ LET sd == segmentData[sx]
           first == sd.firstClusterElement
           p == push(sd.seekInfo, 0, "Cluster",
                     Level1Start(first) - 4 - sd.sizeDenotationLength - ebmlHeaderSize)
           u == UpdateClusterOffsets(
                    <<first>> \o SelectIdx(level0Element.kids, "Cluster", first + 1),
                    [sd EXCEPT !.seekInfo = p.info])
           sd2 == [u.sd EXCEPT !.totalDataSize =
                      u.sd.clusterEndOffset - currentOffset - 4 - u.sd.sizeDenotationLength]
           r == PretendWriting(AfterItems(sd2), sd2, currentPosition)
           sizeLength == calculateSizeDenotationLength(r.sd.totalDataSize)
           totalOffset == currentOffset + 4 + sizeLength + offset
                          + (IF newCuesPos = BeforeData
                             THEN cuesTotalSize(r.sd.cuesUpdater) ELSE 0)
       IN  IF p.changed
           THEN /\ segmentData' = [segmentData EXCEPT ![sx].seekInfo = p.info]
                /\ pc' = "calculateSegmentSize"
                /\ UNCHANGED <<newPadding, rewriteRequired>>
           ELSE IF u.jump
           THEN /\ segmentData' = [segmentData EXCEPT ![sx] =
                                      [u.sd EXCEPT !.totalDataSize = offset]]
                /\ pc' = "addCuesElementSize"
                /\ UNCHANGED <<newPadding, rewriteRequired>>
           ELSE IF r.restart
           THEN /\ segmentData' = [segmentData EXCEPT ![sx] = r.sd]
                /\ pc' = "calculateSegmentSize"
                /\ UNCHANGED <<newPadding, rewriteRequired>>
           ELSE IF r.sd.sizeDenotationLength # sizeLength
           THEN /\ segmentData' = [segmentData EXCEPT ![sx] =
                                      [r.sd EXCEPT !.sizeDenotationLength = sizeLength]]
                /\ pc' = "nonRewriteCalculations"
                /\ UNCHANGED <<newPadding, rewriteRequired>>
           ELSE IF totalOffset <= Level1Start(first)
           THEN IF r.sd.newPadding # 1
                THEN /\ segmentData' = [segmentData EXCEPT ![sx] =
                            [r.sd EXCEPT !.newPadding = Level1Start(first) - totalOffset]]
                     /\ newPadding' = newPadding + (Level1Start(first) - totalOffset)
                     /\ pc' = "changePositions"
                     /\ UNCHANGED rewriteRequired
                ELSE /\ segmentData' = [segmentData EXCEPT ![sx] = r.sd]
                     /\ rewriteRequired' = TRUE
                     /\ pc' = "changePositions"
                     /\ UNCHANGED newPadding
           ELSE /\ segmentData' = [segmentData EXCEPT ![sx] = r.sd]
                /\ rewriteRequired' = TRUE
                /\ pc' = "changePositions"
                /\ UNCHANGED newPadding
    /\ restarts' = IF pc' \in JumpedBackTo THEN restarts + 1 ELSE restarts
    /\ UNCHANGED <<inputVars, oggVars, treeVars, parseVars, mp4Vars, emitVars, newTagPos, currentTagPos, newCuesPos, currentCuesPos,
                   lastSegmentIndex, segmentIndex, level0,
                   currentOffset, readOffset, currentPosition, offset, passes>>

\* MayMoveTags without the test of forceTagPosition
MayMoveTags_IgnoringForce ==
    newTagPos # AfterData

\* whether the tag position may be changed to avoid a rewrite (line 1201)
MayMoveTags ==
    /\ newTagPos # AfterData
    /\ (~cfg.forceTagPosition \/ (cfg.tagPosition = Keep /\ currentTagPos = Keep))

\* whether the cues position may be changed to avoid a rewrite (line 1205)
MayMoveCues ==
    /\ newCuesPos # AfterData
    /\ (~cfg.forceIndexPosition \/ (cfg.indexPosition = Keep /\ currentCuesPos = Keep))

\* ChangePositions with the cues moved to the end before the tags
ChangePositions_CuesFirst ==
    /\ pc = "changePositions"
    /\ IF rewriteRequired
       THEN /\ newCuesPos' = IF MayMoveCues THEN AfterData ELSE newCuesPos
            /\ newTagPos' = IF ~MayMoveCues /\ MayMoveTags THEN AfterData ELSE newTagPos
            /\ rewriteRequired' = ~(MayMoveTags \/ MayMoveCues)
            /\ pc' = "calculateSegmentData"
       ELSE /\ pc' = "segmentDone"
            /\ UNCHANGED <<newTagPos, newCuesPos, rewriteRequired>>
    /\ UNCHANGED <<inputVars, oggVars, treeVars, parseVars, mp4Vars, emitVars, currentTagPos, currentCuesPos,
                   lastSegmentIndex, newPadding, segmentIndex, level0,
                   currentOffset, readOffset, currentPosition, offset, segmentData,
                   passes, restarts>>

\* lines 1200-1212: a required rewrite might be avoided by writing the tags
\* or the cues at the end; the calculation starts again in either case
ChangePositions ==
    /\ pc = "changePositions"
    /\ IF rewriteRequired
       THEN /\ newTagPos' = IF MayMoveTags THEN AfterData ELSE newTagPos
            /\ newCuesPos' = IF ~MayMoveTags /\ MayMoveCues THEN AfterData ELSE newCuesPos
            /\ rewriteRequired' = ~(MayMoveTags \/ MayMoveCues)
            /\ pc' = "calculateSegmentData"
       ELSE /\ pc' = "segmentDone"
            /\ UNCHANGED <<newTagPos, newCuesPos, rewriteRequired>>
    /\ UNCHANGED <<inputVars, oggVars, treeVars, parseVars, mp4Vars, emitVars, currentTagPos, currentCuesPos,
                   lastSegmentIndex, newPadding, segmentIndex, level0,
                   currentOffset, readOffset, currentPosition, offset, segmentData, passes, restarts>>

RECURSIVE NewClusterDataSize(_, _)
\* size of the children of a rewritten cluster (lines 1235-1253): Void and
\* CRC-32 are dropped, "Position" is made anew for the value pos
NewClusterDataSize(kids, pos) ==
    IF kids = <<>> THEN 0
    ELSE (IF Head(kids).id \in {"Void", "Crc32"} THEN 0
          ELSE IF Head(kids).id = "Position" THEN 1 + 1 + calculateUIntegerLength(pos)
          ELSE totalSize(Head(kids)))
         + NewClusterDataSize(Tail(kids), pos)

RECURSIVE PretendWritingClusters(_, _, _)
\* the loop of lines 1224-1258 over the clusters cs, index counting them
PretendWritingClusters(cs, index, sd) ==
    IF cs = <<>> THEN [jump |-> "none", sd |-> sd]
    ELSE LET c == Head(cs)
             u == updateOffsets(sd.cuesUpdater, ClusterReadOffset(c),
                                currentPosition + sd.totalDataSize)
             sd1 == [sd EXCEPT !.cuesUpdater = IF sd.cuesElement # 0 THEN u.cues ELSE @]
             p == push(sd1.seekInfo, index, "Cluster", currentPosition + sd.totalDataSize)
             clusterSize == NewClusterDataSize(level0Element.kids[c].kids,
                                               currentPosition + sd.totalDataSize)
         IN  IF sd.cuesElement # 0 /\ u.changed /\ newCuesPos = BeforeData
             THEN [jump |-> "addCuesElementSize", sd |-> [sd1 EXCEPT !.totalDataSize = offset]]
             ELSE IF index = 0 /\ p.changed
             THEN [jump |-> "calculateSegmentSize", sd |-> [sd1 EXCEPT !.seekInfo = p.info]]
             ELSE PretendWritingClusters(Tail(cs), index + 1,
                     [sd1 EXCEPT
                        !.seekInfo = IF index = 0 THEN p.info ELSE @,
                        !.clusterSizes = Append(@, clusterSize),
                        !.totalDataSize = @ + 4 + calculateSizeDenotationLength(clusterSize)
                                            + clusterSize])

\* the rewrite branch (lines 1214-1296).  level1Element is assigned at line
\* 1217 only when segmentIndex is 0; in every other segment it is still the
\* null pointer the loop over the "Chapters"-elements ended with
RewriteCalculations ==
    /\ pc = "rewriteCalculations"
    /\ restarts < MaxRestarts
    /\ LET sd == segmentData[sx]
           level1Element == IF segmentIndex = 0 THEN childById(level0Element, "Cluster") ELSE 0
           sd1 == IF segmentIndex = 0 /\ level1Element # 0
                  THEN [sd EXCEPT !.totalDataSize = @ + cfg.preferredPadding,
                                  !.newPadding = cfg.preferredPadding,
                                  !.clusterSizes = <<>>]
                  ELSE [sd EXCEPT !.clusterSizes = <<>>]
           w == PretendWritingClusters(
                    IF level1Element = 0 THEN <<>>
                    ELSE <<level1Element>>
                         \o SelectIdx(level0Element.kids, "Cluster", level1Element + 1),
                    0, sd1)
           r == PretendWriting(AfterItems(w.sd), w.sd, currentPosition)
       IN  /\ newPadding' = IF segmentIndex = 0 /\ level1Element # 0
                            THEN cfg.preferredPadding ELSE newPadding
           /\ IF w.jump # "none"
              THEN /\ segmentData' = [segmentData EXCEPT ![sx] = w.sd]
                   /\ pc' = w.jump
              ELSE /\ segmentData' = [segmentData EXCEPT ![sx] = r.sd]
                   /\ pc' = IF r.restart THEN "calculateSegmentSize" ELSE "segmentDone"
    /\ restarts' = IF pc' \in JumpedBackTo THEN restarts + 1 ELSE restarts
    /\ UNCHANGED <<inputVars, oggVars, treeVars, parseVars, mp4Vars, emitVars, newTagPos, currentTagPos, newCuesPos, currentCuesPos,
                   lastSegmentIndex, rewriteRequired, segmentIndex, level0,
                   currentOffset, readOffset, currentPosition, offset, passes>>

\* the size of the segment is known (lines 1298-1309)
SegmentDone ==
    /\ pc = "segmentDone"
    /\ LET sd == segmentData[sx]
           total == 4 + calculateSizeDenotationLength(sd.totalDataSize) + sd.totalDataSize
       IN  /\ segmentData' = [segmentData EXCEPT ![sx].totalSize = total]
           /\ currentPosition' = currentPosition + total
           /\ currentOffset' = currentOffset + total
    /\ segmentIndex' = segmentIndex + 1
    /\ readOffset' = readOffset + totalSize(level0Element)
    /\ level0' = level0 + 1
    /\ pc' = "level0"
    /\ UNCHANGED <<inputVars, oggVars, treeVars, parseVars, mp4Vars, emitVars, newTagPos, currentTagPos, newCuesPos, currentCuesPos,
                   lastSegmentIndex, newPadding, rewriteRequired, offset, passes, restarts>>

\* CheckPadding without the test if(!rewriteRequired) of line 1319: the
\* padding of a file that is written anew is checked as well
CheckPadding_AlsoWhenRewriting ==
    /\ pc = "level0"
    /\ level0 > Len(file)
    /\ IF newPadding > cfg.maxPadding \/ newPadding < cfg.minPadding
       THEN /\ rewriteRequired' = TRUE
            /\ pc' = "calculateSegmentData"
       ELSE /\ pc' = "planned"
            /\ UNCHANGED rewriteRequired
    /\ UNCHANGED <<inputVars, oggVars, treeVars, parseVars, mp4Vars, emitVars, newTagPos, currentTagPos, newCuesPos, currentCuesPos,
                   lastSegmentIndex, newPadding, segmentIndex, level0, currentOffset,
                   readOffset, currentPosition, offset, segmentData, passes, restarts>>

\* all top-level elements have been visited: the padding is checked against
\* the configured range (lines 1319-1325)
CheckPadding ==
    /\ pc = "level0"
    /\ level0 > Len(file)
    /\ IF ~rewriteRequired /\ (newPadding > cfg.maxPadding \/ newPadding < cfg.minPadding)
       THEN /\ rewriteRequired' = TRUE
            /\ pc' = "calculateSegmentData"
       ELSE /\ pc' = "planned"
            /\ UNCHANGED rewriteRequired
    /\ UNCHANGED <<inputVars, oggVars, treeVars, parseVars, mp4Vars, emitVars, newTagPos, currentTagPos, newCuesPos, currentCuesPos,
                   lastSegmentIndex, newPadding, segmentIndex, level0, currentOffset,
                   readOffset, currentPosition, offset, segmentData, passes, restarts>>

\* ------------------------------------------------------------------------
\* Between planning and writing (lines 1336-1397)
\* ------------------------------------------------------------------------
\* CheckAborted with the backup file created before the check
CheckAborted_AfterBackup ==
    /\ pc = "planned"
    /\ originalFile' = "absent"
    /\ backupPath' = "backup"
    /\ IF "container" \in aborted
       THEN pc' = "thrown" /\ failure' = "Aborted"
       ELSE pc' = "prepareStreams" /\ UNCHANGED failure
    /\ UNCHANGED <<inputVars, oggVars, treeVars, parseVars, mp4Vars, planVars, aborted, handled,
                   saveFile, buffered, tellp, clusterIt, out, written, crc32Offsets>>

\* the abort check after the calculations (lines 1336-1338)
CheckAborted ==
    /\ pc = "planned"
    /\ IF "container" \in aborted
       THEN pc' = "thrown" /\ failure' = "Aborted"
       ELSE pc' = "prepareStreams" /\ UNCHANGED failure
    /\ UNCHANGED <<inputVars, oggVars, treeVars, parseVars, mp4Vars, planVars, aborted, handled, originalFile, backupPath,
                   saveFile, buffered, tellp, clusterIt, out, written, crc32Offsets>>

\* BackupHelper::createBackupFile: the original file is moved to the backup
\* directory and reopened there (line 1355)
CreateBackupFile ==
    /\ pc = "prepareStreams"
    /\ rewriteRequired /\ ~cfg.saveFilePath
    /\ \/ /\ originalFile' = "absent"
          /\ backupPath' = "backup"
          /\ pc' = "recreateOriginal"
          /\ UNCHANGED failure
       \/ /\ pc' = "thrown"
          /\ failure' = "Io"
          /\ UNCHANGED <<originalFile, backupPath>>
    /\ UNCHANGED <<inputVars, oggVars, treeVars, parseVars, mp4Vars, planVars, aborted, handled, saveFile, buffered,
                   tellp, clusterIt, out, written, crc32Offsets>>

\* the original file is recreated (line 1357); a failure is caught by the
\* handler of lines 1358-1362, which throws it again
RecreateOriginal ==
    /\ pc = "recreateOriginal"
    /\ \/ /\ originalFile' = "empty"
          /\ pc' = "writeHeader"
          /\ UNCHANGED failure
       \/ /\ pc' = "thrown"
          /\ failure' = "Io"
          /\ UNCHANGED originalFile
    /\ UNCHANGED <<inputVars, oggVars, treeVars, parseVars, mp4Vars, planVars, aborted, handled, backupPath, saveFile, buffered,
                   tellp, clusterIt, out, written, crc32Offsets>>

\* the original file becomes the backup stream and the output file is
\* created at the save file path (lines 1364-1375)
OpenSaveFile ==
    /\ pc = "prepareStreams"
    /\ rewriteRequired /\ cfg.saveFilePath
    /\ \/ /\ saveFile' = "empty"
          /\ pc' = "writeHeader"
          /\ UNCHANGED failure
       \/ /\ pc' = "thrown"
          /\ failure' = "Io"
          /\ UNCHANGED saveFile
    /\ UNCHANGED <<inputVars, oggVars, treeVars, parseVars, mp4Vars, planVars, aborted, handled, originalFile, backupPath,
                   buffered, tellp, clusterIt, out, written, crc32Offsets>>

\* ReopenOriginal without the loop of lines 1384-1386: the file is opened for
\* writing although no attachment maker has buffered its data
ReopenOriginal_WithoutBuffering ==
    /\ pc = "prepareStreams"
    /\ ~rewriteRequired
    /\ \/ /\ pc' = "writeHeader"
          /\ UNCHANGED failure
       \/ /\ pc' = "thrown"
          /\ failure' = "Io"
    /\ UNCHANGED <<inputVars, oggVars, treeVars, parseVars, mp4Vars, planVars, aborted, handled, originalFile, backupPath,
                   saveFile, buffered, tellp, clusterIt, out, written, crc32Offsets>>

\* no rewrite: the attachments are buffered and the original file is opened
\* again for writing (lines 1382-1397)
ReopenOriginal ==
    /\ pc = "prepareStreams"
    /\ ~rewriteRequired
    /\ buffered' = TRUE
    /\ \/ /\ pc' = "writeHeader"
          /\ UNCHANGED failure
       \/ /\ pc' = "thrown"
          /\ failure' = "Io"
    /\ UNCHANGED <<inputVars, oggVars, treeVars, parseVars, mp4Vars, planVars, aborted, handled, originalFile, backupPath,
                   saveFile, tellp, clusterIt, out, written, crc32Offsets>>

\* ------------------------------------------------------------------------
\* Phase D: writing (lines 1400-1727)
\* ------------------------------------------------------------------------
\* the file the output stream writes to gets the content c
WriteTarget(c) ==
    IF rewriteRequired /\ cfg.saveFilePath
    THEN saveFile' = c /\ UNCHANGED originalFile
    ELSE originalFile' = c /\ UNCHANGED saveFile

RECURSIVE Place(_, _, _)
\* the elements es = <<[id, size, x], ...>> written one after the other
\* from position start on, in segment seg
Place(es, start, seg) ==
    IF es = <<>> THEN <<>>
    ELSE <<[seg |-> seg, id |-> Head(es).id, start |-> start, size |-> Head(es).size,
            x |-> Head(es).x]>>
         \o Place(Tail(es), start + Head(es).size, seg)

\* an element to write
W(id, size, x) == [id |-> id, size |-> size, x |-> x]

RECURSIVE ToBytes(_, _)
\* the n bytes of the big-endian representation of v
ToBytes(v, n) ==
    IF n = 0 THEN <<>> ELSE ToBytes(v \div 256, n - 1) \o <<v % 256>>

RECURSIVE Checksum(_, _)
\* a checksum over a sequence of bytes, standing for
\* BinaryReader::readCrc32: a value that depends on every byte
Checksum(bytes, acc) ==
    IF bytes = <<>> THEN acc
    ELSE Checksum(Tail(bytes), (acc * 31 + Head(bytes) + 1) % 65521)

\* bytes of a "Position"-element (or of the "Void" it was turned into)
\* followed by the rest of the cluster
PositionBytes(idByte, value, n) == <<idByte, 128 + n>> \o ToBytes(value, n) \o <<163>>

\* the EBML header is written (lines 1401-1415)
WriteHeader ==
    /\ pc = "writeHeader"
    /\ tellp' = ebmlHeaderSize
    /\ WriteTarget("partial")
    /\ level0' = 1
    /\ segmentIndex' = 0
    /\ currentPosition' = 0
    /\ pc' = "writeLevel0"
    /\ UNCHANGED <<inputVars, oggVars, treeVars, parseVars, mp4Vars, aborted, failure, handled, backupPath, buffered, clusterIt,
                   out, written, crc32Offsets, newTagPos, currentTagPos, newCuesPos,
                   currentCuesPos, lastSegmentIndex, newPadding, rewriteRequired,
                   currentOffset, readOffset, offset, segmentData, passes, restarts>>

\* top-level "Header"-, "Void"- and "Crc32"-elements are not written (lines
\* 1419-1426)
WriteSkipLevel0 ==
    /\ pc = "writeLevel0"
    /\ level0 <= Len(file)
    /\ level0Element.id \in {"Header", "Void", "Crc32"}
    /\ level0' = level0 + 1
    /\ UNCHANGED <<inputVars, oggVars, treeVars, parseVars, mp4Vars, emitVars, pc, newTagPos, currentTagPos, newCuesPos,
                   currentCuesPos, lastSegmentIndex, newPadding, rewriteRequired,
                   segmentIndex, currentOffset, readOffset, currentPosition, offset,
                   segmentData, passes, restarts>>

\* unknown top-level elements are copied (lines 1659-1662);
\* GenericFileElement::copyInternal polls isAborted() of the element and
\* throws once the bytes are copied (src/unnamed/part_001, line 717)
WriteUnknownLevel0 ==
    /\ pc = "writeLevel0"
    /\ level0 <= Len(file)
    /\ level0Element.id \notin {"Header", "Void", "Crc32", "Segment"}
    /\ out' = out \o Place(<<W(level0Element.id, totalSize(level0Element), 0)>>, tellp, -1)
    /\ tellp' = tellp + totalSize(level0Element)
    /\ IF "element" \in aborted
       THEN /\ pc' = "handleFailure"
            /\ failure' = "Aborted"
            /\ UNCHANGED <<currentPosition, level0>>
       ELSE /\ currentPosition' = currentPosition + totalSize(level0Element)
            /\ level0' = level0 + 1
            /\ UNCHANGED <<pc, failure>>
    /\ UNCHANGED <<inputVars, oggVars, treeVars, parseVars, mp4Vars, aborted, handled, originalFile, backupPath, saveFile, buffered,
                   clusterIt, written, crc32Offsets, newTagPos, currentTagPos, newCuesPos,
                   currentCuesPos, lastSegmentIndex, newPadding, rewriteRequired,
                   segmentIndex, currentOffset, readOffset, offset, segmentData, passes, restarts>>

\* bytes all makers write: every maker writes its required size
MakersSize(makers) == SumSeq(makers)

\* the "Tags"- and "Attachments"-element as they are written (lines
\* 1497-1516): the header denotes the precalculated size, every maker makes
\* its element
WrittenTags ==
    (IF tagsSize # 0
     THEN <<W("Tags", 4 + makeSizeDenotation(tagElementsSize) + MakersSize(tagMaker),
              [denoted |-> tagElementsSize])>>
     ELSE <<>>)
    \o (IF attachmentsSize # 0
        THEN <<W("Attachments",
                 4 + makeSizeDenotation(attachedFileElementsSize) + MakersSize(attachmentMaker),
                 [denoted |-> attachedFileElementsSize])>>
        ELSE <<>>)

\* zero bytes the output stream may take before it fails when it is fed
\* zeroes without an end
ZeroesUntilFailure == {0, 500}

\* the "Void"-element made for a padding of n bytes (lines 1531-1549): the
\* length of its size denotation, the length that denotation holds and the
\* zero bytes written.  The length n - 1 - sizeLength is an unsigned number
\* of 64 bits, 2^64 - 1 for n = 1: the denotation of one byte keeps its 7
\* low bits, and the loop writes zeroes until the stream fails
MakeVoid(n, zeroes) ==
    LET sizeLength == IF n < 64 THEN 1 ELSE 8
        voidLength == n - 1 - sizeLength
    IN  W("Void",
          1 + sizeLength + (IF voidLength >= 0 THEN voidLength ELSE zeroes),
          [padding |-> n, sizeLength |-> sizeLength,
           denoted |-> IF sizeLength = 1 THEN voidLength % 128 ELSE voidLength])

\* the elements written before the clusters of the current segment (lines
\* 1439-1549)
WrittenBeforeClusters(sd, zeroes) ==
    LET infos == ChildrenById(level0Element, "SegmentInfo")
        tracks == ChildrenById(level0Element, "Tracks")
        chapters == ChildrenById(level0Element, "Chapters")
    IN  (IF sd.hasCrc32 THEN <<W("Crc32", 6, [covered |-> -1])>> ELSE <<>>)
        \o (IF sd.seekInfo # <<>> THEN <<W("SeekHead", actualSize(sd.seekInfo), 0)>> ELSE <<>>)
        \o [i \in 1..Len(infos) |->
               W("SegmentInfo",
                 4 + makeSizeDenotation(sd.infoDataSize) + InfoDataSize(infos[i]),
                 [denoted |-> sd.infoDataSize])]
        \o [i \in 1..Len(tracks) |-> W("Tracks", totalSize(level0Element.kids[tracks[i]]), 0)]
        \o [i \in 1..Len(chapters) |->
               W("Chapters", totalSize(level0Element.kids[chapters[i]]), 0)]
        \o (IF newTagPos = BeforeData /\ segmentIndex = 0 THEN WrittenTags ELSE <<>>)
        \o (IF newCuesPos = BeforeData /\ sd.cuesElement # 0
            THEN <<W("Cues", cuesTotalSize(sd.cuesUpdater), 0)>> ELSE <<>>)
        \o (IF sd.newPadding # 0 THEN <<MakeVoid(sd.newPadding, zeroes)>> ELSE <<>>)

\* the header of a segment and everything up to the padding is written
\* (lines 1428-1549).  For a padding of 1 the length of the "Void"-element,
\* newPadding - 2, wraps around to 2^64 - 1 and the loop writing the zeroes
\* cannot come to an end: the stream fails
WriteSegmentHead ==
    /\ pc = "writeLevel0"
    /\ level0 <= Len(file)
    /\ level0Element.id = "Segment"
    /\ \E zeroes \in IF segmentData[sx].newPadding = 1 THEN ZeroesUntilFailure ELSE {0} :
       LET sd == segmentData[sx]
           dataOffset == tellp + 4 + makeSizeDenotation(sd.totalDataSize)
           es == Place(WrittenBeforeClusters(sd, zeroes), dataOffset, segmentIndex)
       IN  /\ segmentData' = [segmentData EXCEPT ![sx].newDataOffset = dataOffset]
           /\ offset' = dataOffset
           /\ crc32Offsets' = IF sd.hasCrc32
                              THEN Append(crc32Offsets, <<dataOffset, sd.totalDataSize>>)
                              ELSE crc32Offsets
           /\ out' = out \o es
           /\ tellp' = dataOffset + SumSizes(es)
           /\ written' = Append(written, [start |-> tellp, dataOffset |-> dataOffset,
                                          denoted |-> sd.totalDataSize, end |-> -1])
           /\ IF sd.newPadding = 1
              THEN pc' = "handleFailure" /\ failure' = "Io"
              ELSE pc' = "writeClusters" /\ UNCHANGED failure
    /\ UNCHANGED <<inputVars, oggVars, treeVars, parseVars, mp4Vars, aborted, handled, originalFile, backupPath, saveFile, buffered,
                   clusterIt, newTagPos, currentTagPos, newCuesPos,
                   currentCuesPos, lastSegmentIndex, newPadding, rewriteRequired,
                   segmentIndex, level0, currentOffset, readOffset, currentPosition,
                   passes, restarts>>

\* values read through clusterSizesIterator once it has passed the end of
\* segment.clusterSizes: the read is undefined, any value may come back
UndefinedSizes == {0, 200}

\* what is known of a written cluster: the data size its header denotes,
\* the value of its "Position" child (-1: none), whether that child was
\* turned into a "Void", the CRC-32 value stored in the cluster (-1: none)
\* and the checksum of the bytes it covers
ClusterInfo(denoted, pos, voided, crcStored, crcActual) ==
    [denoted |-> denoted, pos |-> pos, voided |-> voided,
     crcStored |-> crcStored, crcActual |-> crcActual]

\* the clusters of the current segment are reached with a rewrite going on
\* (lines 1552-1559)
BeginClusters ==
    /\ pc = "writeClusters"
    /\ rewriteRequired
    /\ IF "container" \in aborted
       THEN pc' = "handleFailure" /\ failure' = "Aborted"
       ELSE pc' = "writeCluster" /\ UNCHANGED failure
    /\ clusterIt' = 1
    /\ UNCHANGED <<inputVars, oggVars, treeVars, parseVars, mp4Vars, planVars, aborted, handled, originalFile, backupPath,
                   saveFile, buffered, tellp, out, written, crc32Offsets>>

RECURSIVE MadeClusterDataSize(_, _)
\* bytes written for the children of a cluster (lines 1569-1581): Void and
\* CRC-32 are skipped, "Position" is made with the value pos, the others
\* are copied
MadeClusterDataSize(kids, pos) ==
    IF kids = <<>> THEN 0
    ELSE (IF Head(kids).id \in {"Void", "Crc32"} THEN 0
          ELSE IF Head(kids).id = "Position" THEN makeSimpleElementSize(pos)
          ELSE totalSize(Head(kids)))
         + MadeClusterDataSize(Tail(kids), pos)

\* one cluster is written anew (lines 1561-1588); the children are copied
\* with copyEntirely, which polls the element, and the container is polled
\* after each cluster
WriteCluster ==
    /\ pc = "writeCluster"
    /\ clusterIt <= Len(ChildrenById(level0Element, "Cluster"))
    /\ LET sd == segmentData[sx]
           c == level0Element.kids[ChildrenById(level0Element, "Cluster")[clusterIt]]
           clusterSize == currentPosition + (tellp - offset)
           made == MadeClusterDataSize(c.kids, clusterSize)
       IN  \E denoted \in IF clusterIt <= Len(sd.clusterSizes)
                          THEN {sd.clusterSizes[clusterIt]} ELSE UndefinedSizes :
               /\ out' = out \o Place(
                      <<W("Cluster", 4 + makeSizeDenotation(denoted) + made,
                          ClusterInfo(denoted,
                                      IF childById(c, "Position") # 0 THEN clusterSize ELSE -1,
                                      FALSE, -1, -1))>>,
                      tellp, segmentIndex)
               /\ tellp' = tellp + 4 + makeSizeDenotation(denoted) + made
    /\ clusterIt' = clusterIt + 1
    /\ IF aborted # {}
       THEN pc' = "handleFailure" /\ failure' = "Aborted"
       ELSE UNCHANGED <<pc, failure>>
    /\ UNCHANGED <<inputVars, oggVars, treeVars, parseVars, mp4Vars, planVars, aborted, handled, originalFile, backupPath,
                   saveFile, buffered, written, crc32Offsets>>

\* all clusters of the segment have been written
EndClusters ==
    /\ pc = "writeCluster"
    /\ clusterIt > Len(ChildrenById(level0Element, "Cluster"))
    /\ pc' = "writeSegmentTail"
    /\ UNCHANGED <<inputVars, oggVars, treeVars, parseVars, mp4Vars, planVars, emitVars>>

\* a cluster left where it is (lines 1591-1612): its "Position" child is
\* overwritten with the offset from the data offset of the first segment,
\* or turned into a "Void" when the value needs more bytes than it has
ClusterInPlace(c) ==
    LET e == level0Element.kids[c]
        p == childById(e, "Position")
        n == dataSize(e.kids[p])
        old == Level1Start(c) - Level0DataOffset
        new == Level1Start(c) - segmentData[1].newDataOffset
        voided == n < makeUInteger(new, n)
        hasCrc == e.kids # <<>> /\ e.kids[1].id = "Crc32"
    IN  W("Cluster", totalSize(e),
          IF p = 0 THEN ClusterInfo(dataSize(e), -1, FALSE, -1, -1)
          ELSE ClusterInfo(
                 dataSize(e),
                 IF voided THEN old ELSE new,
                 voided,
                 IF hasCrc THEN Checksum(PositionBytes(167, old, n), 0) ELSE -1,
                 IF voided THEN Checksum(PositionBytes(236, old, n), 0)
                 ELSE Checksum(PositionBytes(167, new, n), 0)))

RECURSIVE PlaceInPlace(_)
\* the clusters cs (children of the current segment) at the offsets they
\* have in the original file
PlaceInPlace(cs) ==
    IF cs = <<>> THEN <<>>
    ELSE Place(<<ClusterInPlace(Head(cs))>>, Level1Start(Head(cs)), segmentIndex)
         \o PlaceInPlace(Tail(cs))

\* no rewrite: the "Position"-elements are updated and the existing
\* clusters skipped (lines 1589-1615).  The siblings that follow the first
\* cluster and are no clusters have no "Position" child
UpdateClustersInPlace ==
    /\ pc = "writeClusters"
    /\ ~rewriteRequired
    /\ out' = out \o PlaceInPlace(ChildrenById(level0Element, "Cluster"))
    /\ tellp' = segmentData[sx].clusterEndOffset
    /\ pc' = "writeSegmentTail"
    /\ UNCHANGED <<inputVars, oggVars, treeVars, parseVars, mp4Vars, planVars, aborted, failure, handled, originalFile, backupPath,
                   saveFile, buffered, clusterIt, written, crc32Offsets>>

\* the elements written after the clusters of the current segment (lines
\* 1617-1649)
WrittenAfterClusters(sd) ==
    (IF newCuesPos = AfterData /\ sd.cuesElement # 0
     THEN <<W("Cues", cuesTotalSize(sd.cuesUpdater), 0)>> ELSE <<>>)
    \o (IF newTagPos = AfterData /\ segmentIndex = lastSegmentIndex THEN WrittenTags ELSE <<>>)

\* the rest of the segment is written (lines 1617-1657)
WriteSegmentTail ==
    /\ pc = "writeSegmentTail"
    /\ LET sd == segmentData[sx]
           es == Place(WrittenAfterClusters(sd), tellp, segmentIndex)
       IN  /\ out' = out \o es
           /\ tellp' = tellp + SumSizes(es)
           /\ written' = [written EXCEPT ![Len(written)].end = tellp + SumSizes(es)]
           /\ currentPosition' = currentPosition + sd.totalSize
    /\ segmentIndex' = segmentIndex + 1
    /\ level0' = level0 + 1
    /\ pc' = "writeLevel0"
    /\ UNCHANGED <<inputVars, oggVars, treeVars, parseVars, mp4Vars, aborted, failure, handled, originalFile, backupPath, saveFile,
                   buffered, clusterIt, crc32Offsets, newTagPos, currentTagPos, newCuesPos,
                   currentCuesPos, lastSegmentIndex, newPadding, rewriteRequired,
                   currentOffset, readOffset, offset, segmentData, passes, restarts>>

\* the element o after the CRC-32 checksums have been updated (lines
\* 1709-1717): the placeholder at get<0> receives the checksum of the
\* get<1> - 6 bytes that follow it
UpdateCrc32(o) ==
    IF o.id = "Crc32" /\ \E i \in DOMAIN crc32Offsets : crc32Offsets[i][1] = o.start
    THEN [o EXCEPT !.x = [covered |->
            crc32Offsets[CHOOSE i \in DOMAIN crc32Offsets : crc32Offsets[i][1] = o.start][2] - 6]]
    ELSE o

\* everything is written: the output is parsed again, the CRC-32 checksums
\* are updated and the stream is flushed (lines 1666-1722)
Finish ==
    /\ pc = "writeLevel0"
    /\ level0 > Len(file)
    /\ WriteTarget("new")
    /\ out' = [i \in DOMAIN out |-> UpdateCrc32(out[i])]
    /\ pc' = "done"
    /\ UNCHANGED <<inputVars, oggVars, treeVars, parseVars, mp4Vars, planVars, aborted, failure, handled, backupPath, buffered,
                   tellp, clusterIt, written, crc32Offsets>>

\* where the output stream is written to or read from
Writing == pc \in {"writeHeader", "writeLevel0", "writeClusters", "writeCluster",
                   "writeSegmentTail"}

\* an operation on a stream fails while the file is written
IoFailure ==
    /\ Writing
    /\ pc' = "handleFailure"
    /\ failure' = "Io"
    /\ UNCHANGED <<inputVars, oggVars, treeVars, parseVars, mp4Vars, planVars, aborted, handled, originalFile, backupPath,
                   saveFile, buffered, tellp, clusterIt, out, written, crc32Offsets>>

\* BackupHelper::handleFailureAfterFileModified (line 1726): the original
\* file is restored from the backup file, if there is one, and the failure
\* is thrown again
HandleFailureAfterFileModified ==
    /\ pc = "handleFailure"
    /\ originalFile' = IF backupPath # "" THEN "original" ELSE originalFile
    /\ handled' = TRUE
    /\ pc' = "thrown"
    /\ UNCHANGED <<inputVars, oggVars, treeVars, parseVars, mp4Vars, planVars, aborted, failure, backupPath, saveFile, buffered,
                   tellp, clusterIt, out, written, crc32Offsets>>

\* the user aborts the operation (StatusProvider::tryToAbort), either on the
\* container, whose isAborted() internalMakeFile polls, or on the elements,
\* whose isAborted() copyInternal polls; the flag is only read where
\* isAborted() is called, so that nothing is lost by letting the abort happen
\* right before those places only
TryToAbort ==
    /\ aborted = {}
    /\ pc \in {"planned", "writeLevel0", "writeClusters", "writeCluster"}
    /\ \E provider \in {"container", "element"} : aborted' = {provider}
    /\ UNCHANGED <<inputVars, oggVars, treeVars, parseVars, mp4Vars, planVars, pc, ioVars>>

\* ------------------------------------------------------------------------
\* OggIterator (src/ogg/oggiterator.h, src/ogg/oggiterator.cpp)
\* ------------------------------------------------------------------------
\* largest number of pages of a stream
MaxPages == 2

\* the serial numbers of the logical streams
StreamSerials == {1, 2}

\* the segment tables of the pages
SegmentTables == {<<>>, <<1, 2>>}

\* OggPage::headerSize: the fixed part of the page header and the segment
\* table
pageHeaderSize(page) == 27 + Len(page.segmentSizes)

\* OggPage::totalSize: header and segment data
pageTotalSize(page) == pageHeaderSize(page) + SumSeq(page.segmentSizes)

\* OggPage::dataOffset: start offset of the segment with the given index,
\* counted from 0 and in range
pageDataOffset(page, index) ==
    page.startOffset + pageHeaderSize(page) + SumSeq(SubSeq(page.segmentSizes, 1, index))

\* the offset the iterator has been constructed with (m_startOffset)
m_startOffset == 4

\* start offset of the k-th page of the stream
PageStart(k) ==
    m_startOffset
    + SumSeq([j \in 1..(k - 1) |-> pageTotalSize(oggStream[j])])

\* the end of the range the iterator has been constructed with
\* (m_streamSize)
m_streamSize == PageStart(Len(oggStream) + 1)

\* OggPage::parseHeader at the given offset of the stream
parseHeader(pageOffset) ==
    LET k == CHOOSE j \in 1..Len(oggStream) : PageStart(j) = pageOffset
    IN  [startOffset |-> pageOffset,
         streamSerialNumber |-> oggStream[k].streamSerialNumber,
         segmentSizes |-> oggStream[k].segmentSizes]

\* the iterator after construction (oggiterator.h lines 63-73)
OggIteratorInit ==
    [m_pages |-> <<>>, m_page |-> 0, m_segment |-> 0, m_offset |-> 0, m_bytesRead |-> 0,
     m_hasIdFilter |-> FALSE, m_idFilter |-> 0]

\* size_type(-1): the largest number of the model stands for it
SizeTypeMax == 2147483647

\* the page the iterator i points to
oggCurrentPage(i) == i.m_pages[i.m_page + 1]

\* OggIterator::operator bool
IsValid(i) ==
    /\ i.m_page < Len(i.m_pages)
    /\ i.m_segment < Len(oggCurrentPage(i).segmentSizes)

\* OggIterator::currentSegmentSize
currentSegmentSize(i) == oggCurrentPage(i).segmentSizes[i.m_segment + 1]

\* OggIterator::matchesFilter
matchesFilter(i, page) == ~i.m_hasIdFilter \/ i.m_idFilter = page.streamSerialNumber

\* OggIterator::areAllPagesFetched
areAllPagesFetched(i) ==
    (IF i.m_pages = <<>> THEN m_startOffset
     ELSE i.m_pages[Len(i.m_pages)].startOffset + pageTotalSize(i.m_pages[Len(i.m_pages)]))
    >= m_streamSize

\* OggIterator::fetchNextPage with the cache replaced by the fetched page
fetchNextPage_DroppingPages(i) ==
    IF i.m_page = Len(i.m_pages)
    THEN LET last == i.m_pages[Len(i.m_pages)]
             next == IF i.m_pages = <<>> THEN m_startOffset
                     ELSE last.startOffset + pageTotalSize(last)
         IN  IF next < m_streamSize
             THEN [fetched |-> TRUE,
                   it |-> [i EXCEPT !.m_offset = next, !.m_pages = <<parseHeader(next)>>,
                                    !.m_page = 0]]
             ELSE [fetched |-> FALSE, it |-> [i EXCEPT !.m_offset = next]]
    ELSE [fetched |-> FALSE, it |-> i]

\* OggIterator::fetchNextPage: the result and the iterator afterwards
fetchNextPage(i) ==
    IF i.m_page = Len(i.m_pages)
    THEN LET last == i.m_pages[Len(i.m_pages)]
             next == IF i.m_pages = <<>> THEN m_startOffset
                     ELSE last.startOffset + pageTotalSize(last)
         IN  IF next < m_streamSize
             THEN [fetched |-> TRUE,
                   it |-> [i EXCEPT !.m_offset = next,
                                    !.m_pages = Append(@, parseHeader(next))]]
             ELSE [fetched |-> FALSE, it |-> [i EXCEPT !.m_offset = next]]
    ELSE [fetched |-> FALSE, it |-> i]

\* the condition of the loops of reset and nextPage: the page with index
\* m_page is in the cache or can be fetched
HavePage(i) ==
    IF i.m_page < Len(i.m_pages) THEN [fetched |-> TRUE, it |-> i] ELSE fetchNextPage(i)

RECURSIVE ResetLoop(_)
\* the loop of reset from its condition on
ResetLoop(i) ==
    LET f == HavePage(i)
    IN  IF ~f.fetched THEN f.it
        ELSE LET page == oggCurrentPage(f.it)
             IN  IF page.segmentSizes # <<>> /\ matchesFilter(f.it, page)
                 THEN [f.it EXCEPT !.m_offset = page.startOffset + pageHeaderSize(page)]
                 ELSE ResetLoop([f.it EXCEPT !.m_page = @ + 1])

\* OggIterator::reset
reset(i) == ResetLoop([i EXCEPT !.m_page = 0, !.m_segment = 0, !.m_offset = 0])

RECURSIVE NextPageLoop(_)
\* the loop of nextPage from its condition on, m_page incremented
NextPageLoop(i) ==
    LET f == HavePage(i)
    IN  IF ~f.fetched THEN f.it
        ELSE LET page == oggCurrentPage(f.it)
             IN  IF page.segmentSizes # <<>> /\ matchesFilter(f.it, page)
                 THEN [f.it EXCEPT !.m_segment = 0, !.m_bytesRead = 0,
                                   !.m_offset = page.startOffset + pageHeaderSize(page)]
                 ELSE NextPageLoop([f.it EXCEPT !.m_page = @ + 1])

\* OggIterator::nextPage
nextPage(i) ==
    IF IsValid(i) THEN NextPageLoop([i EXCEPT !.m_page = @ + 1]) ELSE i

\* OggIterator::nextSegment
nextSegment(i) ==
    IF IsValid(i)
    THEN IF /\ i.m_segment + 1 < Len(oggCurrentPage(i).segmentSizes)
            /\ matchesFilter(i, oggCurrentPage(i))
         THEN [i EXCEPT !.m_bytesRead = 0,
                        !.m_offset = @ + currentSegmentSize(i),
                        !.m_segment = @ + 1]
         ELSE nextPage(i)
    ELSE i

RECURSIVE PreviousPageLoop(_, _)
\* the loop of previousPage; the data offset of the segment before the
\* first one of a page without segments is not defined: it is given as
\* undefinedOffset
PreviousPageLoop(i, undefinedOffset) ==
    IF i.m_page > 0
    THEN LET j == [i EXCEPT !.m_page = @ - 1]
             page == oggCurrentPage(j)
         IN  IF matchesFilter(j, page)
             THEN IF page.segmentSizes = <<>>
                  THEN [j EXCEPT !.m_segment = SizeTypeMax, !.m_offset = undefinedOffset]
                  ELSE [j EXCEPT !.m_segment = Len(page.segmentSizes) - 1,
                                 !.m_offset = pageDataOffset(page, Len(page.segmentSizes) - 1)]
             ELSE PreviousPageLoop(j, undefinedOffset)
    ELSE i

\* OggIterator::previousPage
previousPage(i, undefinedOffset) ==
    IF IsValid(i) THEN PreviousPageLoop(i, undefinedOffset) ELSE i

\* OggIterator::previousSegment: the size of the segment left is taken off
\* the offset
previousSegment(i, undefinedOffset) ==
    IF IsValid(i)
    THEN IF i.m_segment > 0 /\ matchesFilter(i, oggCurrentPage(i))
         THEN [i EXCEPT !.m_offset = @ - currentSegmentSize(i), !.m_segment = @ - 1]
         ELSE previousPage(i, undefinedOffset)
    ELSE i

\* 2^32 of the unsigned subtraction: the largest number of the model stands
\* for it
UInt32Wrap == 2147483647

\* the bytes left in the current segment as read and seekForward compute
\* them: an unsigned 32-bit difference
available(i) ==
    IF currentSegmentSize(i) >= i.m_bytesRead
    THEN currentSegmentSize(i) - i.m_bytesRead
    ELSE UInt32Wrap - (i.m_bytesRead - currentSegmentSize(i))

RECURSIVE ReadLoop(_, _)
\* the loop of read: the iterator afterwards and whether
\* TruncatedDataException is thrown; the stream is read at
\* currentCharacterOffset
ReadLoop(i, count) ==
    IF IsValid(i) /\ count # 0
    THEN IF count <= available(i)
         THEN [it |-> [i EXCEPT !.m_bytesRead = @ + count], thrown |-> FALSE]
         ELSE ReadLoop(nextSegment(i), count - available(i))
    ELSE [it |-> i, thrown |-> TRUE]

RECURSIVE SeekForwardLoop(_, _)
\* the loop of seekForward
SeekForwardLoop(i, count) ==
    IF IsValid(i) /\ count # 0
    THEN IF count <= available(i)
         THEN [it |-> [i EXCEPT !.m_bytesRead = @ + count], thrown |-> FALSE]
         ELSE SeekForwardLoop(nextSegment(i), count - available(i))
    ELSE [it |-> i, thrown |-> TRUE]

\* a call of the iterator and its outcome
Call(op, count, thrown) == [op |-> op, count |-> count, thrown |-> thrown]

\* largest count passed to read and seekForward
MaxCount == 2

\* largest value of m_bytesRead that is followed
MaxBytesRead == 3

\* OggIterator::currentSegmentOffset (oggiterator.h, lines 170-173)
currentSegmentOffset(i) == i.m_offset

\* OggIterator::currentCharacterOffset (oggiterator.h, lines 179-182)
currentCharacterOffset(i) == i.m_offset + i.m_bytesRead

\* how far m_offset is off the start of the current segment
OffsetError(i) ==
    IF IsValid(i) THEN pageDataOffset(oggCurrentPage(i), i.m_segment) - i.m_offset ELSE 0

\* largest error of m_offset that is followed
MaxOffsetError == 1

\* the offsets an undefined data offset is taken from
UndefinedOffsets == {0, m_streamSize}

Reset ==
    /\ iterator' = reset(iterator)
    /\ call' = Call("reset", 0, FALSE)
    /\ UNCHANGED <<oggStream, matroskaVars, treeVars, parseVars, mp4Vars>>

NextPage ==
    /\ iterator' = nextPage(iterator)
    /\ call' = Call("nextPage", 0, FALSE)
    /\ UNCHANGED <<oggStream, matroskaVars, treeVars, parseVars, mp4Vars>>

NextSegment ==
    /\ iterator' = nextSegment(iterator)
    /\ call' = Call("nextSegment", 0, FALSE)
    /\ UNCHANGED <<oggStream, matroskaVars, treeVars, parseVars, mp4Vars>>

PreviousPage ==
    /\ \E undefinedOffset \in UndefinedOffsets : iterator' = previousPage(iterator, undefinedOffset)
    /\ call' = Call("previousPage", 0, FALSE)
    /\ UNCHANGED <<oggStream, matroskaVars, treeVars, parseVars, mp4Vars>>

PreviousSegment ==
    /\ \E undefinedOffset \in UndefinedOffsets :
          /\ previousSegment(iterator, undefinedOffset).m_page = iterator.m_page
                => OffsetError(previousSegment(iterator, undefinedOffset))
                      \in (0 - MaxOffsetError)..MaxOffsetError
          /\ iterator' = previousSegment(iterator, undefinedOffset)
    /\ call' = Call("previousSegment", 0, FALSE)
    /\ UNCHANGED <<oggStream, matroskaVars, treeVars, parseVars, mp4Vars>>

Read ==
    /\ \E count \in 0..MaxCount :
          LET r == ReadLoop(iterator, count)
          IN  /\ r.it.m_bytesRead <= MaxBytesRead
              /\ iterator' = r.it
              /\ call' = Call("read", count, r.thrown)
    /\ UNCHANGED <<oggStream, matroskaVars, treeVars, parseVars, mp4Vars>>

SeekForward ==
    /\ \E count \in 0..MaxCount :
          LET r == SeekForwardLoop(iterator, count)
          IN  /\ r.it.m_bytesRead <= MaxBytesRead
              /\ iterator' = r.it
              /\ call' = Call("seekForward", count, r.thrown)
    /\ UNCHANGED <<oggStream, matroskaVars, treeVars, parseVars, mp4Vars>>

SetFilter ==
    /\ \E streamSerialId \in StreamSerials :
          iterator' = [iterator EXCEPT !.m_hasIdFilter = TRUE, !.m_idFilter = streamSerialId]
    /\ call' = Call("setFilter", 0, FALSE)
    /\ UNCHANGED <<oggStream, matroskaVars, treeVars, parseVars, mp4Vars>>

RemoveFilter ==
    /\ iterator' = [iterator EXCEPT !.m_hasIdFilter = FALSE]
    /\ call' = Call("removeFilter", 0, FALSE)
    /\ UNCHANGED <<oggStream, matroskaVars, treeVars, parseVars, mp4Vars>>

\* setPageIndex with an index in range
SetPageIndex ==
    /\ \E index \in 0..(Len(iterator.m_pages) - 1) :
          LET page == iterator.m_pages[index + 1]
          IN  iterator' = [iterator EXCEPT !.m_page = index, !.m_segment = 0,
                               !.m_offset = page.startOffset + pageHeaderSize(page)]
    /\ call' = Call("setPageIndex", 0, FALSE)
    /\ UNCHANGED <<oggStream, matroskaVars, treeVars, parseVars, mp4Vars>>

\* setSegmentIndex with an index in range
SetSegmentIndex ==
    /\ iterator.m_page < Len(iterator.m_pages)
    /\ \E index \in 0..(Len(oggCurrentPage(iterator).segmentSizes) - 1) :
          iterator' = [iterator EXCEPT !.m_segment = index,
                           !.m_offset = pageDataOffset(oggCurrentPage(iterator), index)]
    /\ call' = Call("setSegmentIndex", 0, FALSE)
    /\ UNCHANGED <<oggStream, matroskaVars, treeVars, parseVars, mp4Vars>>

\* the streams the iterator is constructed for
OggStreams ==
    UNION { [1..n -> [streamSerialNumber : StreamSerials, segmentSizes : SegmentTables]] :
            n \in 1..MaxPages }

\* ------------------------------------------------------------------------
\* GenericFileElement: looking elements up (src/unnamed/part_001)
\* ------------------------------------------------------------------------
RECURSIVE subelementByPath(_, _, _)
\* GenericFileElement::subelementByPath called on the i-th of the siblings:
\* the position of the returned element, the indices from the siblings
\* downwards, <<>> for nullptr
subelementByPath(siblings, i, path) ==
    IF path # <<>>
    THEN IF Head(path) = siblings[i].id
         THEN IF Len(path) = 1
              THEN <<i>>
              ELSE IF siblings[i].kids # <<>>
                   THEN LET sub == subelementByPath(siblings[i].kids, 1, Tail(path))
                        IN  IF sub = <<>> THEN <<>> ELSE <<i>> \o sub
                   ELSE <<>>
         ELSE IF i < Len(siblings)
              THEN subelementByPath(siblings, i + 1, path)
              ELSE <<>>
    ELSE <<>>

\* an element as the lookups see it
Element(id, kids) == [id |-> id, kids |-> kids]

\* the identifiers of the explored trees
ElementIds == {"A", "B"}

\* largest number of siblings and of children of an explored tree
MaxSiblings == 2

\* the sibling lists of elements without children
LeafLists == UNION { [1..n -> {Element(id, <<>>) : id \in ElementIds}] : n \in 0..MaxSiblings }

\* the explored trees: top-level siblings with children
ElementTrees ==
    UNION { [1..n -> {Element(id, kids) : id \in ElementIds, kids \in LeafLists}] :
            n \in 1..MaxSiblings }

\* the explored paths
Paths == UNION { [1..n -> ElementIds] : n \in 0..3 }

\* a lookup and what it returned
Lookup(op, receiver, path, result) ==
    [op |-> op, receiver |-> receiver, path |-> path, result |-> result]

SubelementByPath ==
    /\ \E receiver \in 1..Len(elements), path \in Paths :
          lookup' = Lookup("subelementByPath", receiver, path,
                           subelementByPath(elements, receiver, path))
    /\ UNCHANGED <<elements, matroskaVars, oggVars, parseVars, mp4Vars>>

\* childById called on a top-level element
ChildById ==
    /\ \E receiver \in 1..Len(elements), id \in ElementIds :
          lookup' = Lookup("childById", receiver, <<id>>,
                           IF childById(elements[receiver], id) = 0 THEN <<>>
                           ELSE <<receiver, childById(elements[receiver], id)>>)
    /\ UNCHANGED <<elements, matroskaVars, oggVars, parseVars, mp4Vars>>

\* siblingById called on a top-level element
SiblingById ==
    /\ \E receiver \in 1..Len(elements), id \in ElementIds :
          lookup' = Lookup("siblingById", receiver, <<id>>,
                           IF siblingById(Element("", elements), receiver, id) = 0 THEN <<>>
                           ELSE <<siblingById(Element("", elements), receiver, id)>>)
    /\ UNCHANGED <<elements, matroskaVars, oggVars, parseVars, mp4Vars>>

\* ------------------------------------------------------------------------
\* MatroskaContainer::internalParseHeader (lines 341-522)
\* ------------------------------------------------------------------------
\* a child of a top-level element: ok tells whether its parse() succeeds,
\* value is what is read from it (the entries of a "SeekHead", the number of
\* "MaxIdLength" and "MaxSizeLength")
SubElement(id, ok, value) == [id |-> id, ok |-> ok, value |-> value]

\* a top-level element
TopLevelElement(id, ok, kids) == [id |-> id, ok |-> ok, kids |-> kids]

\* EbmlElement::maximumIdLengthSupported, EbmlElement::maximumSizeLengthSupported
maximumIdLengthSupported == 4
maximumSizeLengthSupported == 8

\* the children of a segment that are gathered in a list of their own
\* (m_tracksElements, m_segmentInfoElements, m_tagsElements,
\* m_chaptersElements, m_attachmentsElements)
GatheredIds == {"Tracks", "SegmentInfo", "Tags", "Chapters", "Attachments"}

\* internalParseHeader is entered (lines 341-353); big tells whether the
\* size of the file exceeds m_maxFullParseSize
ParserInit(big) ==
    [pc |-> "topLevel", top |-> 1, sub |-> 1, big |-> big,
     m_segmentCount |-> 0, m_seekInfos |-> <<>>, seekInfosIndex |-> 0,
     gathered |-> [id \in GatheredIds |-> {}], headerRead |-> {},
     notifications |-> 0]

topLevelElement == m_firstElement[parser.top]
subElement == topLevelElement.kids[parser.sub]

\* whether handling the current child of the EBML header ends with a
\* Failure: parse() fails or a length is not supported (lines 361-397)
HeaderChildFails ==
    \/ ~subElement.ok
    \/ subElement.id = "MaxIdLength" /\ subElement.value > maximumIdLengthSupported
    \/ subElement.id = "MaxSizeLength" /\ subElement.value > maximumSizeLengthSupported

RECURSIVE ResolveSeekInfo(_, _, _)
\* the loop of lines 445-493 over the entries of one SeekHead: an entry
\* [id, target] denotes child target of the current segment, 0 an offset
\* beyond the file; g is what has been gathered, n counts notifications
ResolveSeekInfo(entries, g, n) ==
    IF entries = <<>> THEN [gathered |-> g, notifications |-> n]
    ELSE LET e == Head(entries)
         IN  IF e.target = 0 \/ e.target > Len(topLevelElement.kids)
             THEN ResolveSeekInfo(Tail(entries), g, n + 1)
             ELSE LET element == topLevelElement.kids[e.target]
                  IN  IF ~element.ok
                      THEN ResolveSeekInfo(Tail(entries), g, n + 1)
                      ELSE ResolveSeekInfo(
                               Tail(entries),
                               IF element.id \in GatheredIds
                               THEN [g EXCEPT ![element.id] = @ \cup {<<parser.top, e.target>>}]
                               ELSE g,
                               IF element.id # e.id THEN n + 1 ELSE n)

RECURSIVE ResolveSeekInfos(_, _, _)
\* the loop of line 444 over the seek infos not looked at so far
ResolveSeekInfos(infos, g, n) ==
    IF infos = <<>> THEN [gathered |-> g, notifications |-> n]
    ELSE LET r == ResolveSeekInfo(Head(infos), g, n)
         IN  ResolveSeekInfos(Tail(infos), r.gathered, r.notifications)

\* the next top-level element is parsed (lines 354-357, 403-405, 513-521):
\* a failure is noted and ends the loop
ParseTopLevel ==
    /\ parser.pc = "topLevel"
    /\ parser.top <= Len(m_firstElement)
    /\ parser' =
           IF ~topLevelElement.ok
           THEN [parser EXCEPT !.notifications = @ + 1, !.pc = "finish"]
           ELSE IF topLevelElement.id = "Header"
           THEN [parser EXCEPT !.pc = "subElement", !.sub = 1]
           ELSE IF topLevelElement.id = "Segment"
           THEN [parser EXCEPT !.pc = "subElement", !.sub = 1, !.m_segmentCount = @ + 1]
           ELSE [parser EXCEPT !.top = @ + 1]
    /\ UNCHANGED <<m_firstElement, matroskaVars, oggVars, treeVars, mp4Vars>>

\* a child of the EBML header is parsed and read (lines 359-402): a failure
\* is noted and ends the loop over the children
ParseHeaderChild ==
    /\ parser.pc = "subElement"
    /\ topLevelElement.id = "Header"
    /\ parser.sub <= Len(topLevelElement.kids)
    /\ parser' =
           IF HeaderChildFails
           THEN [parser EXCEPT !.notifications = @ + 1, !.pc = "topLevel", !.top = @ + 1]
           ELSE [parser EXCEPT !.headerRead = @ \cup {<<parser.top, parser.sub>>},
                               !.sub = @ + 1]
    /\ UNCHANGED <<m_firstElement, matroskaVars, oggVars, treeVars, mp4Vars>>

\* a child of a segment is parsed and gathered (lines 406-509): a failure is
\* noted and ends the loop over the children; at a cluster the seek infos
\* are looked at and the parsing stops if all that matters has been found
ParseSegmentChild ==
    /\ parser.pc = "subElement"
    /\ topLevelElement.id = "Segment"
    /\ parser.sub <= Len(topLevelElement.kids)
    /\ parser' =
           IF ~subElement.ok
           THEN [parser EXCEPT !.notifications = @ + 1, !.pc = "topLevel", !.top = @ + 1]
           ELSE IF subElement.id = "SeekHead"
           THEN [parser EXCEPT !.m_seekInfos = Append(@, subElement.value), !.sub = @ + 1]
           ELSE IF subElement.id \in GatheredIds
           THEN [parser EXCEPT
                    !.gathered[subElement.id] = @ \cup {<<parser.top, parser.sub>>},
                    !.sub = @ + 1]
           ELSE IF subElement.id = "Cluster"
           THEN LET r == ResolveSeekInfos(
                             SubSeq(parser.m_seekInfos, parser.seekInfosIndex + 1,
                                    Len(parser.m_seekInfos)),
                             parser.gathered, parser.notifications)
                    g == r.gathered
                IN  [parser EXCEPT
                        !.gathered = g,
                        !.notifications = r.notifications,
                        !.seekInfosIndex = Len(parser.m_seekInfos),
                        !.pc = IF /\ (g["Tracks"] # {} /\ g["Tags"] # {}) \/ parser.big
                                  /\ g["SegmentInfo"] # {}
                               THEN "finish" ELSE "subElement",
                        !.sub = @ + 1]
           ELSE [parser EXCEPT !.sub = @ + 1]
    /\ UNCHANGED <<m_firstElement, matroskaVars, oggVars, treeVars, mp4Vars>>

\* the children of the top-level element have been gone through (lines
\* 403, 511-512)
EndOfChildren ==
    /\ parser.pc = "subElement"
    /\ parser.sub > Len(topLevelElement.kids)
    /\ parser' = [parser EXCEPT !.pc = "topLevel", !.top = @ + 1]
    /\ UNCHANGED <<m_firstElement, matroskaVars, oggVars, treeVars, mp4Vars>>

\* all top-level elements have been gone through (line 354)
EndOfElements ==
    /\ parser.pc = "topLevel"
    /\ parser.top > Len(m_firstElement)
    /\ parser' = [parser EXCEPT !.pc = "finish"]
    /\ UNCHANGED <<m_firstElement, matroskaVars, oggVars, treeVars, mp4Vars>>

\* largest number of children of a top-level element of a parsed file
MaxChildren == 3

\* the children of the EBML header of the parsed files
HeaderChildren ==
    {SubElement("DocType", ok, 0) : ok \in BOOLEAN}
    \cup {SubElement("MaxIdLength", TRUE, n) : n \in {4, 5}}
    \cup {SubElement("MaxSizeLength", TRUE, n) : n \in {8, 9}}

\* the children of the segments of the parsed files
SegmentChildren ==
    {SubElement(id, ok, 0) : id \in {"Tracks", "Tags", "SegmentInfo"}, ok \in BOOLEAN}
    \cup {SubElement("Cluster", TRUE, 0)}
    \cup {SubElement("SeekHead", TRUE, <<[id |-> "Tags", target |-> t]>>) : t \in {0, 3}}

\* the files internalParseHeader is run on: an EBML header and a segment,
\* the children of one of them varied, and an unknown element in front of a
\* segment
ParsedFiles ==
    {<<TopLevelElement("Header", TRUE, hk),
       TopLevelElement("Segment", TRUE, <<SubElement("Tracks", TRUE, 0)>>)>> :
        hk \in [1..2 -> HeaderChildren]}
    \cup {<<TopLevelElement("Header", TRUE, <<SubElement("DocType", TRUE, 0)>>),
            TopLevelElement("Segment", ok, sk)>> :
        ok \in BOOLEAN, sk \in [1..MaxChildren -> SegmentChildren]}
    \cup {<<TopLevelElement("Unknown", ok, <<>>), TopLevelElement("Segment", TRUE, sk)>> :
        ok \in BOOLEAN, sk \in [1..2 -> SegmentChildren]}

\* ------------------------------------------------------------------------
\* Mp4TagField (src/mp4/mp4tagfield.cpp)
\* ------------------------------------------------------------------------
\* a TagValue: its type and what it holds
TagValue(type, n, total, data) == [type |-> type, n |-> n, total |-> total, data |-> data]

\* TagValue::isEmpty
isEmpty(v) == v.type = "Empty"

\* TagValue::toInteger, TagValue::toStandardGenreIndex and
\* TagValue::toPositionIntSet: the number a value of a numeric type holds;
\* other values cannot be converted (ConversionException)
Convertible(v) == v.type \in {"Integer", "StandardGenreIndex", "PositionInSet"}
toInteger(v) == v.n
toStandardGenreIndex(v) == v.n
toPositionIntSet(v) == [position |-> v.n, total |-> IF v.type = "PositionInSet" THEN v.total ELSE 0]

\* a byte of the two's complement of a negative number, from the byte of
\* its complement
Inverted(bytes) == [i \in DOMAIN bytes |-> 255 - bytes[i]]

\* BinaryWriter::writeInt16BE, writeUInt16BE: the two low bytes
writeInt16BE(n) == ToBytes(n % 65536, 2)

\* BinaryWriter::writeInt32BE, writeUInt32BE
writeInt32BE(n) == IF n >= 0 THEN ToBytes(n, 4) ELSE Inverted(ToBytes(-n - 1, 4))

RECURSIVE FromBytes(_)
\* the unsigned number with the big-endian representation bytes
FromBytes(bytes) ==
    IF bytes = <<>> THEN 0
    ELSE FromBytes(SubSeq(bytes, 1, Len(bytes) - 1)) * 256 + bytes[Len(bytes)]

\* BinaryReader::readUInt16BE, readInt16BE, readByte, readChar at the
\* start of bytes
readUInt16BE(bytes) == FromBytes(SubSeq(bytes, 1, 2))
readInt16BE(bytes) ==
    IF bytes[1] >= 128 THEN readUInt16BE(bytes) - 65536 ELSE readUInt16BE(bytes)
readChar(bytes) == IF bytes[1] >= 128 THEN bytes[1] - 256 ELSE bytes[1]

\* BinaryReader::readInt32BE; readUInt32BE converted to int gives the same
readInt32BE(bytes) ==
    IF bytes[1] >= 128 THEN -FromBytes(Inverted(SubSeq(bytes, 1, 4))) - 1
    ELSE FromBytes(SubSeq(bytes, 1, 4))

\* Mp4TagField::appropriateRawDataType (lines 432-475): the type info if
\* assigned, otherwise a raw data type that suits the id; "Failure" if there
\* is none
appropriateRawDataType(f) ==
    IF f.typeInfo # "unassigned" THEN f.typeInfo
    ELSE IF f.id \in {"TrackPosition", "DiskPosition"} THEN "Reserved"
    ELSE IF f.id \in {"PreDefinedGenre", "Bpm", "Rating"} THEN "BeSignedInt"
    ELSE "Failure"

\* the conversion of Mp4TagField::make (lines 306-349): the bytes written to
\* convertedData, thrown if a ConversionException ends it
convertedData(f, rawDataType) ==
    LET v == f.value
        number == toInteger(v)
        pos == toPositionIntSet(v)
        done(bytes) == [thrown |-> FALSE, data |-> bytes]
        failed == [thrown |-> TRUE, data |-> <<>>]
    IN  IF isEmpty(v) THEN done(<<>>)
        ELSE IF rawDataType \in {"Utf8", "Utf16"}
        THEN (IF v.type = "Text" THEN done(v.data) ELSE failed)
        ELSE IF rawDataType = "BeSignedInt"
        THEN (IF ~Convertible(v) THEN failed
              ELSE IF number <= 32767 /\ number >= -32768 THEN done(writeInt16BE(number))
              ELSE done(writeInt32BE(number)))
        ELSE IF rawDataType = "BeUnsignedInt"
        THEN (IF ~Convertible(v) THEN failed
              ELSE IF number <= 65535 /\ number >= 0 THEN done(writeInt16BE(number))
              ELSE IF number > 0 THEN done(writeInt32BE(number))
              ELSE failed)
        ELSE IF f.id \in {"TrackPosition", "DiskPosition"}
        THEN (IF ~Convertible(v) THEN failed
              ELSE IF pos.total <= 32767
              THEN done(writeInt32BE(pos.position) \o writeInt16BE(pos.total)
                        \o writeInt16BE(0))
              ELSE failed)
        ELSE IF f.id = "PreDefinedGenre"
        THEN (IF ~Convertible(v) THEN failed
              ELSE done(writeInt16BE(toStandardGenreIndex(v))))
        ELSE done(<<>>)

\* Mp4TagField::make (lines 267-387): the tag atom written for field f, its
\* "data" child holding the raw data type and the data; thrown if make ends
\* with InvalidDataException
make(f) ==
    LET raw == appropriateRawDataType(f)
        rawDataType == IF raw = "Failure" THEN "Utf8" ELSE raw
        c == convertedData(f, rawDataType)
    IN  [thrown |-> c.thrown,
         id |-> f.id,
         hasData |-> ~c.thrown /\ ~isEmpty(f.value),
         rawDataType |-> rawDataType,
         data |-> IF c.thrown THEN <<>>
                  ELSE IF c.data # <<>> THEN c.data
                  ELSE f.value.data]

\* the number Mp4TagField::reparse reads for the integer types (lines
\* 141-150, 160-169): by the size of the data
ReadNumber(data) ==
    IF Len(data) >= 4 THEN readInt32BE(data)
    ELSE IF Len(data) = 2 THEN readInt16BE(data)
    ELSE IF Len(data) = 1 THEN readChar(data)
    ELSE 0

ReadUnsignedNumber(data) ==
    IF Len(data) >= 4 THEN readInt32BE(data)
    ELSE IF Len(data) = 2 THEN readUInt16BE(data)
    ELSE IF Len(data) = 1 THEN data[1]
    ELSE 0

\* Mp4TagField::reparse (lines 70-257) of a tag atom with at most one "data"
\* child whose data, after its 8 bytes of type and locale, is a.data
reparse(a) ==
    LET data == a.data
        value ==
            IF ~a.hasData THEN TagValue("Empty", 0, 0, <<>>)
            ELSE IF a.rawDataType \in {"Utf8", "Utf16"} THEN TagValue("Text", 0, 0, data)
            ELSE IF a.rawDataType = "BeSignedInt"
            THEN TagValue(IF a.id = "PreDefinedGenre" THEN "StandardGenreIndex" ELSE "Integer",
                          ReadNumber(data), 0, <<>>)
            ELSE IF a.rawDataType = "BeUnsignedInt"
            THEN (IF a.id = "PreDefinedGenre"
                  THEN TagValue("StandardGenreIndex", ReadUnsignedNumber(data) - 1, 0, <<>>)
                  ELSE TagValue("Integer", ReadUnsignedNumber(data), 0, <<>>))
            ELSE IF a.id \in {"TrackPosition", "DiskPosition"}
            THEN TagValue("PositionInSet",
                          IF Len(data) >= 4 THEN readUInt16BE(SubSeq(data, 3, 4)) ELSE 0,
                          IF Len(data) >= 6 THEN readUInt16BE(SubSeq(data, 5, 6)) ELSE 0,
                          <<>>)
            ELSE IF a.id = "PreDefinedGenre"
            THEN (IF Len(data) < 2 THEN TagValue("Empty", 0, 0, <<>>)
                  ELSE TagValue("StandardGenreIndex", readUInt16BE(data) - 1, 0, <<>>))
            ELSE TagValue("Undefined", 0, 0, data)
    IN  [id |-> a.id, typeInfo |-> a.rawDataType, value |-> value]

\* the last call on the field: made is the value the atom was made from,
\* trips counts the atoms parsed
Atom(op, a, made, trips) == [op |-> op, a |-> a, made |-> made, trips |-> trips]

\* no atom has been made
NoAtom == [thrown |-> FALSE, id |-> "", hasData |-> FALSE, rawDataType |-> "Reserved", data |-> <<>>]

\* largest number of times a field is made and parsed again
MaxRoundTrips == 2

\* the field is saved: make()
Make ==
    /\ atom.op \in {"none", "reparse"}
    /\ atom.trips < MaxRoundTrips
    /\ atom' = Atom("make", make(field), field.value, atom.trips)
    /\ UNCHANGED <<field, matroskaVars, oggVars, treeVars, parseVars>>

\* the atom that was made is parsed: reparse()
Reparse ==
    /\ atom.op = "make"
    /\ ~atom.a.thrown
    /\ field' = reparse(atom.a)
    /\ atom' = [atom EXCEPT !.op = "reparse", !.trips = @ + 1]
    /\ UNCHANGED <<matroskaVars, oggVars, treeVars, parseVars>>

\* the data of the "data" atoms of the files the fields are parsed from
AtomData ==
    {<<0, 0>>, <<0, 1>>, <<0, 5>>, <<255, 255>>, <<7>>, <<0, 1, 17, 112>>,
     <<0, 0, 0, 3>>, <<0, 0, 0, 3, 0, 10, 0, 0>>}

\* the tag atoms of the files the fields are parsed from
ParsedAtoms ==
    {[thrown |-> FALSE, id |-> id, hasData |-> TRUE, rawDataType |-> type, data |-> data] :
        id \in {"PreDefinedGenre", "TrackPosition", "Bpm"},
        type \in {"Reserved", "BeSignedInt", "BeUnsignedInt"},
        data \in AtomData}

\* fields that were not parsed but added: no type info is assigned
AddedFields ==
    {[id |-> "PreDefinedGenre", typeInfo |-> "unassigned",
      value |-> TagValue("StandardGenreIndex", n, 0, <<>>)] : n \in {0, 5}}
    \cup {[id |-> "Bpm", typeInfo |-> "unassigned",
           value |-> TagValue("Integer", n, 0, <<>>)] : n \in {-1, 120, 70000}}
    \cup {[id |-> "TrackPosition", typeInfo |-> "unassigned",
           value |-> TagValue("PositionInSet", 3, 10, <<>>)]}

\* ------------------------------------------------------------------------
\* Explored inputs
\* ------------------------------------------------------------------------
\* n clusters of the same kind
Clusters(n, kind) == [i \in 1..n |-> kind]

\* a segment description
Desc(crc, infos, cues, tags, tagsAt, pad, clusters, sdl) ==
    [crc |-> crc, infos |-> infos, cues |-> cues, tags |-> tags, tagsAt |-> tagsAt,
     pad |-> pad, clusters |-> clusters, sdl |-> sdl]

\* settings
Config(tagPos, forceTag, indexPos, forceIndex, preferred, min, max, force, save) ==
    [tagPosition |-> tagPos, forceTagPosition |-> forceTag,
     indexPosition |-> indexPos, forceIndexPosition |-> forceIndex,
     preferredPadding |-> preferred, minPadding |-> min,
     maxPadding |-> max, forceRewrite |-> force,
     saveFilePath |-> save]

\* an input: the original file, the settings and the makers
Input(f, c, tags, attachments) ==
    [file |-> f, cfg |-> c, tags |-> tags, attachments |-> attachments]

\* the settings left at their defaults but for the forced rewrite
DefaultConfig(force) == Config(Keep, FALSE, Keep, FALSE, 10, 0, 100, force, FALSE)

\* files of one segment in every layout, default settings; a segment without
\* clusters has no "Cues"-element
LayoutInputs ==
    { Input(OrigFile(<<Desc(crc, infos, IF n = 0 THEN "none" ELSE cues, 30, tagsAt, 40,
                            Clusters(n, "pos"), 2)>>, FALSE),
            DefaultConfig(force), <<20>>, <<>>) :
        crc \in BOOLEAN, infos \in {<<0>>, <<0, 5>>},
        cues \in {"none", BeforeData, AfterData},
        tagsAt \in {BeforeData, AfterData}, n \in 0..MaxClusters, force \in BOOLEAN }

\* one layout, the makers and the padding of the original file varied
MakerInputs ==
    { Input(OrigFile(<<Desc(FALSE, <<0>>, BeforeData, 30, BeforeData, pad,
                            Clusters(MaxClusters, kind), sdl)>>, FALSE),
            Config(Keep, FALSE, Keep, FALSE, 10, min, 100, FALSE, save), tags, attachments) :
        pad \in {0, 16, 40, 72}, kind \in {"crcpos", "plain"}, sdl \in {2, 3},
        min \in {0, 20}, save \in BOOLEAN,
        tags \in {<<>>, <<3>>, <<20>>, <<3, 60>>}, attachments \in {<<>>, <<25>>} }

\* one layout, the positions asked for varied
PositionInputs ==
    { Input(OrigFile(<<Desc(TRUE, <<0>>, IF n = 0 THEN "none" ELSE cues, 30, BeforeData, pad,
                            Clusters(n, "pos"), 2)>>, FALSE),
            Config(tagPosition, forceTag, indexPosition, forceIndex, 10, 0, 100, FALSE, FALSE),
            <<60>>, <<>>) :
        cues \in {BeforeData, AfterData}, pad \in {0, 40}, n \in {0, MaxClusters},
        tagPosition \in {Keep, BeforeData, AfterData}, forceTag \in BOOLEAN,
        indexPosition \in {Keep, BeforeData, AfterData}, forceIndex \in BOOLEAN }

\* the segments of the files of several segments: with and without a
\* "Cues"-element, with little padding, without a cluster
SegmentDescs ==
    { Desc(FALSE, <<0>>, BeforeData, 0, BeforeData, 40, Clusters(1, "crcpos1"), 2),
      Desc(FALSE, <<0>>, "none", 0, BeforeData, 40, Clusters(1, "crcpos1"), 2),
      Desc(FALSE, <<0>>, BeforeData, 0, BeforeData, 4, Clusters(1, "crcpos1"), 2),
      Desc(FALSE, <<0>>, "none", 0, BeforeData, 40, <<>>, 2) }

\* files of up to MaxSegments segments, possibly with an unknown top-level
\* element after the first segment
SegmentsInputs ==
    { Input(OrigFile(descs, unknown), Config(Keep, FALSE, Keep, FALSE, 10, min, 100, force, FALSE),
            <<20>>, <<>>) :
        descs \in UNION {[1..k -> SegmentDescs] : k \in 1..MaxSegments},
        unknown \in BOOLEAN, min \in {0, 20}, force \in BOOLEAN }

\* a file without tags and without padding whose index is behind the data,
\* the positions asked for varied: neither the tags nor the index fit in
\* front of the data
TightInputs ==
    { Input(OrigFile(<<Desc(FALSE, <<0>>, AfterData, 0, BeforeData, 0, Clusters(1, "pos"), 2)>>,
                     FALSE),
            Config(tagPosition, forceTag, indexPosition, forceIndex, 10, 0, 100, FALSE, FALSE),
            <<60>>, <<>>) :
        tagPosition \in {Keep, BeforeData}, forceTag \in BOOLEAN,
        indexPosition \in {Keep, BeforeData}, forceIndex \in BOOLEAN }

\* files of two segments with clusters, no tags in the file and the tags
\* asked for in front of the data without being forced there: where the
\* first segment has no room for them, the planning starts over with the
\* tags behind the data of the last segment
MovedTagsInputs ==
    { Input(OrigFile(<<Desc(FALSE, <<0>>, cues, 0, BeforeData, pad, Clusters(1, "crcpos1"), 2),
                       Desc(FALSE, <<0>>, "none", 0, BeforeData, 40, Clusters(1, "crcpos1"), 2)>>,
                     FALSE),
            Config(BeforeData, forceTag, indexPosition, FALSE, 10, 0, 100, FALSE, FALSE),
            <<60>>, attachments) :
        cues \in {"none", AfterData}, pad \in {0, 40}, forceTag \in BOOLEAN,
        indexPosition \in {Keep, BeforeData}, attachments \in {<<>>, <<25>>} }

\* files written with a rewrite asked for (forced, or a save file path set),
\* the positions asked for varied; the segments of a file of two segments
\* have their "Cues"-element on different sides of the clusters
ForcedInputs ==
    { Input(OrigFile(descs, FALSE),
            Config(tagPosition, FALSE, indexPosition, FALSE, 10, 0, 100, ~save, save),
            <<20>>, <<>>) :
        descs \in { <<Desc(FALSE, <<0>>, cues, 30, tagsAt, 40, Clusters(1, "pos"), 2)>> :
                        cues \in {BeforeData, AfterData}, tagsAt \in {BeforeData, AfterData} }
                  \cup { <<Desc(FALSE, <<0>>, BeforeData, 0, BeforeData, 40, Clusters(1, "crcpos1"), 2),
                           Desc(FALSE, <<0>>, AfterData, 0, BeforeData, 40, Clusters(1, "crcpos1"), 2)>> },
        tagPosition \in {Keep, BeforeData, AfterData},
        indexPosition \in {Keep, BeforeData, AfterData}, save \in BOOLEAN }

\* one segment with little padding in front of its cluster and no tags,
\* the preferred padding varied, with and without a forced rewrite
PaddingInputs ==
    { Input(OrigFile(<<Desc(FALSE, <<0>>, "none", 0, BeforeData, pad, Clusters(1, "plain"), 2)>>,
                     FALSE),
            Config(Keep, FALSE, Keep, FALSE, preferred, 0, 100, force, FALSE), <<20>>, <<>>) :
        pad \in {2, 3, 4, 5, 6}, preferred \in {1, 2, 64}, force \in BOOLEAN }

\* one segment whose data size is at the edge between a size denotation of
\* 2 and of 3 bytes, the original denotation having 2 or 3 bytes
EdgeInputs ==
    { Input(OrigFile(<<Desc(FALSE, <<0>>, "none", 0, BeforeData, 40, <<kind>>, sdl)>>, FALSE),
            DefaultConfig(FALSE), <<20>>, <<>>) :
        kind \in {"edge0", "edge1", "edge2"}, sdl \in {2, 3} }

\* whether the "Position" children of the clusters of a file can hold the
\* offset of their cluster from the data offset of its segment
PositionsFit(f) ==
    \A s \in DOMAIN f : \A c \in DOMAIN f[s].kids :
        (f[s].id = "Segment" /\ f[s].kids[c].id = "Cluster"
         /\ childById(f[s].kids[c], "Position") # 0)
            => calculateUIntegerLength(ChildStart(0, f[s], c) - f[s].hdr)
                   <= dataSize(f[s].kids[c].kids[childById(f[s].kids[c], "Position")])

\* whether only segments with clusters have a "Cues"-element
CuesHaveClusters(f) ==
    \A s \in DOMAIN f :
        (f[s].id = "Segment" /\ childById(f[s], "Cues") # 0) => childById(f[s], "Cluster") # 0

Inputs ==
    {in \in LayoutInputs \cup MakerInputs \cup PositionInputs \cup SegmentsInputs
                \cup ForcedInputs \cup PaddingInputs \cup EdgeInputs \cup TightInputs
                \cup MovedTagsInputs :
        PositionsFit(in.file) /\ CuesHaveClusters(in.file)}

\* ------------------------------------------------------------------------
\* The written file
\* ------------------------------------------------------------------------
\* internalMakeFile has returned without a failure
Done == pc = "done"

\* the elements written at offset start with identifier id
WrittenAt(id, start) == {i \in DOMAIN out : out[i].id = id /\ out[i].start = start}

\* the elements with identifier id written in the segment with index seg
WrittenIn(id, seg) == {i \in DOMAIN out : out[i].id = id /\ out[i].seg = seg}

\* the "Cluster"-elements of the written file
WrittenClusters == {i \in DOMAIN out : out[i].id = "Cluster"}

RECURSIVE SumOutSizes(_)
\* bytes taken by the elements of out with the indices in the set is
SumOutSizes(is) ==
    IF is = {} THEN 0
    ELSE LET i == CHOOSE j \in is : TRUE IN out[i].size + SumOutSizes(is \ {i})

\* ------------------------------------------------------------------------
\* Properties
\* ------------------------------------------------------------------------
\* C1: once a failure has propagated out of internalMakeFile after the
\* backup file was created (a failure to recreate the output file right
\* after the backup included), the file at the original path is the input
C1_OriginalIntactAfterBackup ==
    (pc = "thrown" /\ backupPath # "") => originalFile = "original"

\* C2: an Aborted failure raised while the file is written, with or without
\* a rewrite, has gone through the failure path of the backup helper and the
\* original file has its original content when the failure leaves
C2_AbortedRestoresOriginal ==
    (pc = "thrown" /\ failure = "Aborted" /\ tellp > 0)
        => (handled /\ originalFile = "original")

\* C3: in the written file every entry (id, offset) of the SeekHead of every
\* segment points, from the data offset of that segment, at the first byte of
\* an element with the identifier id
C3_SeekHeadEntriesValid ==
    Done =>
        \A k \in DOMAIN written :
            \A e \in DOMAIN segmentData[k].seekInfo :
                WrittenAt(segmentData[k].seekInfo[e].id,
                          written[k].dataOffset + segmentData[k].seekInfo[e].offset) # {}

\* C4: in the written file every CueClusterPosition of the "Cues"-element of
\* every segment points, from the data offset of that segment, at the first
\* byte of a "Cluster"-element
C4_CueClusterPositionsValid ==
    Done =>
        \A k \in DOMAIN written :
            WrittenIn("Cues", k - 1) # {} =>
                \A e \in DOMAIN segmentData[k].cuesUpdater.entries :
                    WrittenAt("Cluster",
                              written[k].dataOffset
                              + segmentData[k].cuesUpdater.entries[e].value) # {}

\* C5: every cluster of the written file with a "Position" child has, as the
\* value of that child, its start offset minus the data offset of the segment
\* it is in, unless the child was turned into a "Void" without a rewrite
C5_ClusterPositionsValid ==
    Done =>
        \A i \in WrittenClusters :
            out[i].x.pos # -1 =>
                \/ ~rewriteRequired /\ out[i].x.voided
                \/ out[i].x.pos = out[i].start - written[out[i].seg + 1].dataOffset

\* C6: for every written segment the bytes written after its size denotation
\* are as many as the denotation says, and the total size is the header of 4
\* bytes plus the minimal denotation plus the data
C6_SegmentSizeLaw ==
    Done =>
        \A k \in DOMAIN written :
            /\ written[k].dataOffset + written[k].denoted = written[k].end
            /\ written[k].dataOffset = written[k].start + 4 + makeSizeDenotation(written[k].denoted)
            /\ segmentData[k].totalSize
                   = 4 + calculateSizeDenotationLength(written[k].denoted) + written[k].denoted

\* C7: when the file is written without a rewrite, the padding left before
\* the first cluster of the file lies between the minimum and the maximum
\* padding
C7_PaddingWithinBounds ==
    (Done /\ ~rewriteRequired) =>
        \A k \in DOMAIN written :
            (WrittenIn("Cluster", k - 1) # {}
             /\ \A j \in 1..(k - 1) : WrittenIn("Cluster", j - 1) = {}) =>
                /\ cfg.minPadding <= SumOutSizes(WrittenIn("Void", k - 1))
                /\ SumOutSizes(WrittenIn("Void", k - 1)) <= cfg.maxPadding

\* C8: every CRC-32 of the written file holds the checksum of the bytes from
\* behind it to the end of the element it is in: the one at the start of a
\* segment and the one of a cluster that was modified where it is
C8_Crc32Valid ==
    Done =>
        /\ \A k \in DOMAIN written :
               \A i \in WrittenIn("Crc32", k - 1) :
                   out[i].x.covered = written[k].end - (out[i].start + 6)
        /\ \A i \in WrittenClusters :
               out[i].x.crcStored # -1 => out[i].x.crcStored = out[i].x.crcActual

\* whether the element with index i of out lies on the side of the clusters
\* of its segment that the tag position pos says
OnSide(i, pos) ==
    \A c \in WrittenIn("Cluster", out[i].seg) :
        IF pos = BeforeData THEN out[i].start < out[c].start
        ELSE out[i].start >= out[c].start + out[c].size

\* whether element id is written once, in the segment and on the side the
\* new tag position says, and planned in that segment
OncePlannedAndWritten(id) ==
    LET seg == IF newTagPos = BeforeData THEN 0 ELSE lastSegmentIndex
    IN  /\ Cardinality({i \in DOMAIN out : out[i].id = id}) = 1
        /\ \A i \in DOMAIN out :
               out[i].id = id =>
                   /\ out[i].seg = seg
                   /\ OnSide(i, newTagPos)
                   /\ SelectIdx(segmentData[seg + 1].seekInfo, id, 1) # <<>>

\* C9: with tags (attachments) to write, the "Tags"-element ("Attachments"-
\* element) is planned and written exactly once: in the first segment in
\* front of the clusters or in the last segment behind them, as the new tag
\* position says, planning and writing agreeing
C9_TagsPlannedAndWrittenOnce ==
    Done =>
        /\ tagsSize # 0 => OncePlannedAndWritten("Tags")
        /\ attachmentsSize # 0 => OncePlannedAndWritten("Attachments")

\* C10: a maker that requires at most 3 bytes is dropped from the plan and
\* from the output: the bytes written inside a "Tags"- or "Attachments"-
\* element are as many as its header says
C10_MakersMatchDenotedSize ==
    \A i \in DOMAIN out :
        out[i].id \in {"Tags", "Attachments"} =>
            out[i].size - 4 - makeSizeDenotation(out[i].x.denoted) = out[i].x.denoted

\* a rewrite was asked for: forced, or a save file path is set
RewriteAskedFor == cfg.forceRewrite \/ cfg.saveFilePath

\* the calculations are over: the positions are the ones used for writing
PlanningOver ==
    pc \in {"planned", "prepareStreams", "recreateOriginal", "writeHeader", "writeLevel0",
            "writeClusters", "writeCluster", "writeSegmentTail", "done"}

\* where the "Cues"-element of the first segment of the original file is,
\* BeforeData when that segment lacks a "Cues"-element or a cluster
FirstCuesPos ==
    LET s == CHOOSE i \in DOMAIN file :
                 file[i].id = "Segment" /\ \A j \in 1..(i - 1) : file[j].id # "Segment"
        cu == childById(file[s], "Cues")
        cl == childById(file[s], "Cluster")
    IN  IF cu # 0 /\ cl # 0 /\ cl < cu THEN AfterData ELSE BeforeData

\* the tag position asked for, Keep being the current tag position of the
\* file and BeforeData when there is none
TagPosAskedFor ==
    IF cfg.tagPosition # Keep THEN cfg.tagPosition
    ELSE IF currentTagPos # Keep THEN currentTagPos ELSE BeforeData

\* C11 (as stated): with a forced rewrite or a save file path the rewrite
\* flag is set from the start and never cleared, and the tag and index
\* positions used are the ones asked for, Keep being the current position
C11_ForcedRewriteKeepsCurrentPositions ==
    RewriteAskedFor =>
        /\ rewriteRequired
        /\ PlanningOver =>
               /\ newTagPos = TagPosAskedFor
               /\ newCuesPos = IF cfg.indexPosition # Keep THEN cfg.indexPosition
                               ELSE IF currentCuesPos # Keep THEN currentCuesPos
                               ELSE BeforeData

\* C11 (amended): with a forced rewrite or a save file path the rewrite
\* flag is set from the start and never cleared, and the tag and index
\* positions used are the ones asked for, Keep being the current tag
\* position of the file and the cues position of its first segment
C11_ForcedRewriteUsesFirstSegmentPositions ==
    RewriteAskedFor =>
        /\ rewriteRequired
        /\ PlanningOver =>
               /\ newTagPos = TagPosAskedFor
               /\ newCuesPos = IF cfg.indexPosition # Keep THEN cfg.indexPosition
                               ELSE FirstCuesPos

\* a file whose second segment has its "Cues"-element behind the clusters
\* was written anew with the positions kept
C11_Witness ==
    /\ RewriteAskedFor /\ Done
    /\ cfg.indexPosition = Keep /\ cfg.tagPosition = Keep
    /\ currentCuesPos = AfterData /\ lastSegmentIndex = 1

\* the file is being written or has been written
Emission ==
    pc \in {"writeHeader", "writeLevel0", "writeClusters", "writeCluster", "writeSegmentTail",
            "handleFailure", "done"}

\* C18: a padding of 1 byte computed for a segment never reaches the
\* writing of a file that is not written anew
C18_PaddingOfOneNeverWritten ==
    (Emission /\ ~rewriteRequired) =>
        \A k \in DOMAIN segmentData : segmentData[k].newPadding # 1

\* C19: the "Void"-element written for a padding of N bytes takes N bytes:
\* an identifier of 1 byte, a size denotation of 1 or 8 bytes that holds the
\* rest of the length, and that many zero bytes
C19_VoidTakesPaddingBytes ==
    \A i \in DOMAIN out :
        out[i].id = "Void" =>
            /\ out[i].size = out[i].x.padding
            /\ out[i].x.sizeLength \in {1, 8}
            /\ out[i].x.denoted = out[i].x.padding - 1 - out[i].x.sizeLength

\* internalMakeFile is at one of its calculations (lines 839-1338)
Planning ==
    pc \in {"inspectLayout", "calculateSegmentData", "level0", "calculateSegmentSize",
            "addCuesElementSize", "decide", "nonRewriteCalculations", "changePositions",
            "rewriteCalculations", "segmentDone", "planned"}

\* C17: the calculation of the segment sizes comes to an end for every
\* input: none of the jumps back to calculateSegmentSize, addCuesElementSize
\* and nonRewriteCalculations is taken without an end, so that their number
\* per segment stays below MaxRestarts
C17_RestartsBounded == restarts < MaxRestarts

\* the caller asked for a position of the tags that is there to be kept
\* (line 1201)
TagPosPinned ==
    cfg.forceTagPosition /\ ~(cfg.tagPosition = Keep /\ currentTagPos = Keep)

\* the caller asked for a position of the index that is there to be kept
\* (line 1205)
IndexPosPinned ==
    cfg.forceIndexPosition /\ ~(cfg.indexPosition = Keep /\ currentCuesPos = Keep)

\* the elements do not fit in front of the first cluster and no rewrite has
\* been decided yet (line 1200)
DoesNotFit == pc = "changePositions" /\ rewriteRequired

\* a pass of the calculations which rewrites the file begins
RewritePassBegins == pc' = "calculateSegmentData" /\ rewriteRequired'

\* C20: when the elements do not fit without a rewrite the tags are moved
\* behind the data first, unless their position is pinned, and the
\* calculation starts again with the index where it was; the index is moved
\* behind the data only when the tags are behind the data already or pinned
\* and the index position is not pinned; a rewrite which was not asked for
\* and is not due to the padding limits begins only when neither move is
\* left
C20_TagsThenCuesThenRewrite ==
    [][/\ DoesNotFit =>
             /\ pc' = "calculateSegmentData"
             /\ IF newTagPos # AfterData /\ ~TagPosPinned
                THEN newTagPos' = AfterData /\ newCuesPos' = newCuesPos /\ ~rewriteRequired'
                ELSE IF newCuesPos # AfterData /\ ~IndexPosPinned
                THEN newCuesPos' = AfterData /\ newTagPos' = newTagPos /\ ~rewriteRequired'
                ELSE rewriteRequired' /\ newTagPos' = newTagPos /\ newCuesPos' = newCuesPos
       /\ (pc # "changePositions" /\ pc' # "level0" /\ pc' # "calculateSegmentData") =>
             /\ newTagPos' = newTagPos
             /\ (newCuesPos' # newCuesPos => pc = "level0" /\ newCuesPos = Keep)
       /\ (RewritePassBegins /\ ~RewriteAskedFor) =>
             \/ pc = "level0" /\ (newPadding > cfg.maxPadding \/ newPadding < cfg.minPadding)
             \/ /\ DoesNotFit
                /\ newTagPos = AfterData \/ TagPosPinned
                /\ newCuesPos = AfterData \/ IndexPosPinned]_vars

\* the tags have been moved behind the data, the index has been moved
\* behind the data in a later pass, and the rewrite begins after that
C20_Witness ==
    /\ ~RewriteAskedFor /\ rewriteRequired /\ passes = 3 /\ pc = "calculateSegmentData"
    /\ newTagPos = AfterData /\ newCuesPos = AfterData
    /\ cfg.tagPosition # AfterData /\ cfg.indexPosition # AfterData

\* C12: no step of the calculations, the ones that end them with a failure
\* or with an abort included, writes a byte, creates a backup file or a
\* file at the save file path, buffers or reopens anything: the files are
\* as they were when internalMakeFile was called
C12_PlanningOnlyReads ==
    [][Planning => /\ UNCHANGED <<originalFile, backupPath, saveFile, buffered>>
                   /\ UNCHANGED <<tellp, out, written, crc32Offsets>>
                   /\ originalFile = "original" /\ backupPath = "" /\ tellp = 0]_vars

\* the calculations were ended by the abort check behind them
C12_Witness ==
    /\ pc = "thrown" /\ failure = "Aborted" /\ ~handled
    /\ originalFile = "original" /\ passes > 0

\* the k-th page of the stream
StreamPage(k) == parseHeader(PageStart(k))

\* the segment data of a page which the filter of iterator i lets through
PageData(i, page) == IF matchesFilter(i, page) THEN SumSeq(page.segmentSizes) ELSE 0

\* the segment data of the stream which the filter of iterator i lets through
TotalData(i) == SumSeq([k \in 1..Len(oggStream) |-> PageData(i, StreamPage(k))])

\* the segment data in front of the position of iterator i: all of it when
\* the iterator is not valid
ConsumedData(i) ==
    IF IsValid(i)
    THEN SumSeq([k \in 1..i.m_page |-> PageData(i, StreamPage(k))])
         + SumSeq(SubSeq(oggCurrentPage(i).segmentSizes, 1, i.m_segment))
         + i.m_bytesRead
    ELSE TotalData(i)

\* the segment data from the position of iterator i on
RemainingData(i) == TotalData(i) - ConsumedData(i)

\* the iterator is valid, on a page of the filter and inside its segment
InsideSegment(i) ==
    /\ IsValid(i)
    /\ matchesFilter(i, oggCurrentPage(i))
    /\ i.m_bytesRead <= currentSegmentSize(i)

\* C13: read and seekForward called on a valid iterator return without a
\* failure, the position count bytes of segment data further on, whenever
\* count bytes are left, count = 0 included, and throw
\* TruncatedDataException exactly when fewer than count bytes are left
C13_ReadAdvancesByCount ==
    [][(call'.op \in {"read", "seekForward"} /\ InsideSegment(iterator)) =>
          IF call'.count <= RemainingData(iterator)
          THEN /\ ~call'.thrown
               /\ ConsumedData(iterator') = ConsumedData(iterator) + call'.count
          ELSE call'.thrown]_vars

\* C14: the pages fetched so far stay where they are in the cache whatever
\* is called, reset included, and every page added to the cache starts
\* where the page before it ends, the first one at the start offset
C14_PageCacheOnlyGrows ==
    [][/\ Len(iterator'.m_pages) >= Len(iterator.m_pages)
       /\ SubSeq(iterator'.m_pages, 1, Len(iterator.m_pages)) = iterator.m_pages
       /\ \A k \in (Len(iterator.m_pages) + 1)..Len(iterator'.m_pages) :
             iterator'.m_pages[k].startOffset =
                IF k = 1 THEN m_startOffset
                ELSE iterator'.m_pages[k - 1].startOffset
                     + pageTotalSize(iterator'.m_pages[k - 1])]_vars

\* the iterator has been reset after all pages of a stream of several pages
\* have been fetched
C14_Witness ==
    /\ call.op = "reset"
    /\ Len(iterator.m_pages) >= 2
    /\ areAllPagesFetched(iterator)
    /\ iterator.m_page = 0

\* the calls which move the iterator from page to page
Moves == {"reset", "nextPage", "nextSegment", "previousPage", "previousSegment"}

\* C15: with a filter set, reset, nextPage, nextSegment, previousPage and
\* previousSegment called on an iterator which is not valid or on a page of
\* the filter leave it, if valid, on a page whose serial number is the one
\* of the filter
C15_MovesKeepToFilter ==
    [][(/\ call'.op \in Moves
        /\ iterator.m_hasIdFilter
        /\ IsValid(iterator) => matchesFilter(iterator, oggCurrentPage(iterator))
        /\ IsValid(iterator')) =>
          oggCurrentPage(iterator').streamSerialNumber = iterator'.m_idFilter]_vars

RECURSIVE ElementsByPath(_, _, _)
\* the positions of the elements among the siblings from index from on and
\* their descendants whose identifiers, from the level of the siblings
\* downwards, are the ones of the path
ElementsByPath(siblings, from, path) ==
    IF path = <<>> THEN {}
    ELSE UNION { IF siblings[i].id # Head(path) THEN {}
                 ELSE IF Len(path) = 1 THEN {<<i>>}
                 ELSE { <<i>> \o sub : sub \in ElementsByPath(siblings[i].kids, 1, Tail(path)) } :
                 i \in from..Len(siblings) }

\* C16: subelementByPath returns an element whose identifiers from the level
\* of the receiver downwards are the ones of the path whenever there is such
\* an element among the receiver, its following siblings and their
\* descendants, and returns null only when there is none
C16_SubelementFoundWheneverThere ==
    lookup.op = "subelementByPath" =>
        IF ElementsByPath(elements, lookup.receiver, lookup.path) = {}
        THEN lookup.result = <<>>
        ELSE lookup.result \in ElementsByPath(elements, lookup.receiver, lookup.path)

\* C21: while the file is written the container is polled where the
\* clusters of a segment begin, without a rewrite as well as with one: once
\* isAborted() is true there the writing fails with Aborted and goes no
\* further
C21_AbortPolledAtClusters ==
    [][(pc = "writeClusters" /\ "container" \in aborted) =>
          pc' = "handleFailure" /\ failure' = "Aborted"]_vars

\* the file the makers and the copied elements read from while the file is
\* written: the backup stream once setStream(backupStream) was called
\* (line 1379), the stream of the file itself without a rewrite
InputFile ==
    IF rewriteRequired THEN (IF cfg.saveFilePath THEN "path" ELSE "backup") ELSE "path"

\* the file the output stream writes to (lines 1357, 1368, 1391)
OutputFile ==
    IF rewriteRequired /\ cfg.saveFilePath THEN "saveFilePath" ELSE "path"

\* C23: as soon as anything is written, what the attachment makers need from
\* the original stream is safe from the writing: the makers have buffered
\* their attachments when the file is written over itself, and otherwise the
\* stream that is read is not the file that is written
C23_BufferedBeforeFirstWrite ==
    (Emission /\ out # <<>>) => (buffered \/ InputFile # OutputFile)

\* attachments have been written into the original file itself
C23_Witness ==
    /\ ~rewriteRequired /\ attachmentMaker # <<>>
    /\ \E k \in DOMAIN out : out[k].id = "Attachments"

\* the final pass of a rewrite adds a padding to the totalDataSize of
\* segment k (from 1) of the file: only for the first segment, if it has a
\* "Cluster"-element (lines 1216-1219)
PaddingPlannedByRewrite(k) ==
    LET segments == SelectIdx(file, "Segment", 1)
    IN  k = 1 /\ k <= Len(segments) /\ childById(file[segments[k]], "Cluster") # 0

\* C25: when the file is written anew, a segment gets a "Void"-element (its
\* newPadding is not 0, line 1531) only if the final planning pass added the
\* padding to the segment's totalDataSize
C25_VoidOnlyWherePlanned ==
    (Emission /\ rewriteRequired) =>
        \A k \in DOMAIN segmentData :
            segmentData[k].newPadding # 0 => PaddingPlannedByRewrite(k)

\* C24: in a written file of two or more segments whose planning started
\* over, the SeekHead of a segment names "Tags", "Attachments" or "Cues" only
\* if that element is written in that very segment
C24_SeekHeadNamesOwnElements ==
    (Done /\ SegmentCount(file) >= 2 /\ passes > 1) =>
        \A k \in DOMAIN written :
            \A e \in DOMAIN segmentData[k].seekInfo :
                segmentData[k].seekInfo[e].id \in {"Tags", "Attachments", "Cues"} =>
                    \E i \in DOMAIN out :
                        /\ out[i].id = segmentData[k].seekInfo[e].id
                        /\ out[i].seg = k - 1

OnSideOfAllData(i, pos) ==
    \A c \in WrittenClusters :
        IF pos = BeforeData THEN out[i].start < out[c].start
        ELSE out[i].start >= out[c].start + out[c].size

C26_OffsetsDenoteCurrentSegment ==
    IsValid(iterator) =>
        /\ currentSegmentOffset(iterator)
               = pageDataOffset(oggCurrentPage(iterator), iterator.m_segment)
        /\ currentCharacterOffset(iterator) >= currentSegmentOffset(iterator)
        /\ currentCharacterOffset(iterator)
               <= currentSegmentOffset(iterator) + currentSegmentSize(iterator)

\* total size of segment j (from 1) of the written file as a reader parses
\* it: its header and the data size its header denotes
ParsedSegmentSize(j) == (written[j].dataOffset - written[j].start) + written[j].denoted

RECURSIVE ParsedSizesBefore(_)
\* currentOffset of internalParseHeader (lines 351, 511) and of
\* validateIndex (lines 95, 265) when segment k is reached: the total sizes
\* of the segments in front of it
ParsedSizesBefore(k) ==
    IF k <= 1 THEN 0 ELSE ParsedSizesBefore(k - 1) + ParsedSegmentSize(k - 1)

\* the offset internalParseHeader looks at for an entry of the SeekHead of
\* segment k with the value stored (line 446)
seekHeadOffset(k, stored) == ParsedSizesBefore(k) + written[k].dataOffset + stored

\* cueClusterOffset with the base of internalParseHeader: the sizes of the
\* segments in front are added
cueClusterOffset_Adding(k, stored) == ParsedSizesBefore(k) + written[k].dataOffset + stored

\* the offset validateIndex looks at for a CueClusterPosition of segment k
\* with the value stored (line 163)
cueClusterOffset(k, stored) == written[k].dataOffset + stored - ParsedSizesBefore(k)

RECURSIVE PlannedSizesBefore(_)
\* currentPosition of internalMakeFile when segment k (from 1) is
\* calculated (lines 937, 1305): the total sizes of the segments in front
PlannedSizesBefore(k) ==
    IF k <= 1 THEN 0 ELSE PlannedSizesBefore(k - 1) + segmentData[k - 1].totalSize

\* the offset in the written file of the element that internalMakeFile
\* stores the value stored for in segment k: the value is currentPosition
\* plus the bytes of the segment's data in front of the element (line 998)
placedOffset(k, stored) == written[k].dataOffset + (stored - PlannedSizesBefore(k))

C22_ParsingGoesOnAfterFailure ==
    [][/\ (/\ parser.pc = "subElement"
           /\ parser.sub < Len(topLevelElement.kids)
           /\ IF topLevelElement.id = "Header" THEN HeaderChildFails ELSE ~subElement.ok)
          => /\ parser'.pc = "subElement"
             /\ parser'.top = parser.top
             /\ parser'.sub = parser.sub + 1
       /\ (/\ parser.pc = "topLevel"
           /\ parser.top < Len(m_firstElement)
           /\ ~topLevelElement.ok)
          => /\ parser'.pc = "topLevel"
             /\ parser'.top = parser.top + 1]_vars

\* C30: a standard genre index of a "PreDefinedGenre" field whose type info
\* is the raw data type 0 parsed from a file is the same after make() and
\* reparse()
C30_GenreIndexSurvivesRoundTrip ==
    (/\ atom.op = "reparse"
     /\ field.id = "PreDefinedGenre"
     /\ atom.a.rawDataType = "Reserved"
     /\ atom.made.type = "StandardGenreIndex"
     /\ atom.made.n >= 0)
        => field.value = atom.made

\* ------------------------------------------------------------------------
\* Specification
\* ------------------------------------------------------------------------

\* no iterator is in use
OggIdle ==
    /\ oggStream = <<>>
    /\ iterator = OggIteratorInit
    /\ call = Call("none", 0, FALSE)

\* no tree is looked at
TreeIdle ==
    /\ elements = <<>>
    /\ lookup = Lookup("none", 0, <<>>, <<>>)

\* internalParseHeader is not running
ParseIdle ==
    /\ m_firstElement = <<>>
    /\ parser = [ParserInit(FALSE) EXCEPT !.pc = "idle"]

\* no tag field is made or parsed
Mp4Idle ==
    /\ field = [id |-> "", typeInfo |-> "unassigned", value |-> TagValue("Empty", 0, 0, <<>>)]
    /\ atom = Atom("idle", NoAtom, field.value, 0)

\* internalMakeFile is not running
MatroskaIdle ==
    /\ file = <<>> /\ cfg = DefaultConfig(FALSE) /\ tagMaker = <<>> /\ attachmentMaker = <<>>
    /\ pc = "idle"
    /\ newTagPos = Keep /\ currentTagPos = Keep /\ newCuesPos = Keep /\ currentCuesPos = Keep
    /\ lastSegmentIndex = -1 /\ newPadding = 0 /\ rewriteRequired = FALSE
    /\ segmentIndex = 0 /\ level0 = 1 /\ currentOffset = 0 /\ readOffset = 0
    /\ currentPosition = 0 /\ offset = 0 /\ segmentData = <<>> /\ passes = 0 /\ restarts = 0
    /\ aborted = {} /\ failure = "none" /\ handled = FALSE /\ originalFile = "original"
    /\ backupPath = "" /\ saveFile = "absent" /\ buffered = FALSE /\ tellp = 0
    /\ clusterIt = 1 /\ out = <<>> /\ written = <<>> /\ crc32Offsets = <<>>

Init ==
    /\ \E in \in Inputs :
          /\ file = in.file
          /\ cfg = in.cfg
          /\ tagMaker = in.tags
          /\ attachmentMaker = in.attachments
          /\ newTagPos = in.cfg.tagPosition
          /\ newCuesPos = in.cfg.indexPosition
          /\ rewriteRequired = (in.cfg.forceRewrite \/ in.cfg.saveFilePath)
    /\ pc = "inspectLayout"
    /\ currentTagPos = Keep
    /\ currentCuesPos = Keep
    /\ lastSegmentIndex = -1
    /\ newPadding = 0
    /\ segmentIndex = 0
    /\ level0 = 1
    /\ currentOffset = 0
    /\ readOffset = 0
    /\ currentPosition = 0
    /\ offset = 0
    /\ segmentData = <<>>
    /\ passes = 0
    /\ restarts = 0
    /\ aborted = {}
    /\ failure = "none"
    /\ handled = FALSE
    /\ originalFile = "original"
    /\ backupPath = ""
    /\ saveFile = "absent"
    /\ buffered = FALSE
    /\ tellp = 0
    /\ clusterIt = 1
    /\ out = <<>>
    /\ written = <<>>
    /\ crc32Offsets = <<>>
    /\ OggIdle
    /\ TreeIdle
    /\ ParseIdle
    /\ Mp4Idle

Next ==
    \/ InspectLayout
    \/ CalculateSegmentData
    \/ SkipLevel0
    \/ UnknownLevel0
    \/ BeginSegment
    \/ CalculateSegmentSize
    \/ AddCuesElementSize
    \/ Decide
    \/ NonRewriteCalculations
    \/ ChangePositions
    \/ RewriteCalculations
    \/ SegmentDone
    \/ CheckPadding
    \/ CheckAborted
    \/ CreateBackupFile
    \/ RecreateOriginal
    \/ OpenSaveFile
    \/ ReopenOriginal
    \/ WriteHeader
    \/ WriteSkipLevel0
    \/ WriteUnknownLevel0
    \/ WriteSegmentHead
    \/ BeginClusters
    \/ WriteCluster
    \/ EndClusters
    \/ UpdateClustersInPlace
    \/ WriteSegmentTail
    \/ Finish
    \/ IoFailure
    \/ HandleFailureAfterFileModified
    \/ TryToAbort

Spec == Init /\ [][Next]_vars

\* an iterator constructed for a stream and the calls made on it
OggInit ==
    /\ oggStream \in OggStreams
    /\ iterator = OggIteratorInit
    /\ call = Call("none", 0, FALSE)
    /\ MatroskaIdle
    /\ TreeIdle
    /\ ParseIdle
    /\ Mp4Idle

OggNext ==
    \/ Reset
    \/ NextPage
    \/ NextSegment
    \/ PreviousPage
    \/ PreviousSegment
    \/ Read
    \/ SeekForward
    \/ SetFilter
    \/ RemoveFilter
    \/ SetPageIndex
    \/ SetSegmentIndex

OggSpec == OggInit /\ [][OggNext]_vars

\* a tree of elements and the lookups made in it
TreeInit ==
    /\ elements \in ElementTrees
    /\ lookup = Lookup("none", 0, <<>>, <<>>)
    /\ MatroskaIdle
    /\ OggIdle
    /\ ParseIdle
    /\ Mp4Idle

TreeNext ==
    \/ SubelementByPath
    \/ ChildById
    \/ SiblingById

TreeSpec == TreeInit /\ [][TreeNext]_vars

\* internalParseHeader run on a file
ParseInit ==
    /\ m_firstElement \in ParsedFiles
    /\ parser \in {ParserInit(big) : big \in BOOLEAN}
    /\ MatroskaIdle
    /\ OggIdle
    /\ TreeIdle
    /\ Mp4Idle

ParseNext ==
    \/ ParseTopLevel
    \/ ParseHeaderChild
    \/ ParseSegmentChild
    \/ EndOfChildren
    \/ EndOfElements

ParseSpec == ParseInit /\ [][ParseNext]_vars

\* a field parsed from a file or added, made and parsed again
Mp4Init ==
    /\ field \in {reparse(a) : a \in ParsedAtoms} \cup AddedFields
    /\ atom = Atom("none", NoAtom, field.value, 0)
    /\ MatroskaIdle
    /\ OggIdle
    /\ TreeIdle
    /\ ParseIdle

Mp4Next ==
    \/ Make
    \/ Reparse

Mp4Spec == Mp4Init /\ [][Mp4Next]_vars

====
